---- MODULE Spec2Model ----
(***************************************************************************)
(* A model of pypetkitapi's PetKitClient: the refresh cycle                *)
(* (get_devices_data), its task planner, the fetch/dispatch handlers and   *)
(* the pet statistics reconciler (populate_pet_stats).                     *)
(*                                                                         *)
(* Python's None is the empty tuple and a present value v is <<v>>, so     *)
(* that optional integers and optional strings never meet in a comparison. *)
(***************************************************************************)
EXTENDS Integers, Sequences, FiniteSets, TLC

VARIABLES
    account_data,     \* self.account_data: <<>> or one account
    petkit_entities,  \* self.petkit_entities: key -> entity
    entity_order,     \* insertion order of the keys of petkit_entities
    main_tasks,       \* the four batches built by _prepare_tasks,
    record_tasks,     \*   each task [device, data_class, st]
    media_tasks,
    live_tasks,
    pc,               \* where get_devices_data stands
    last_stats,       \* what the latest populate_pet_stats call saw and did
    session,          \* self._session: "none", "valid" or "expired"
    call,             \* the running _fetch_device_data or send_api_request
    session_id,       \* self._session.id (the number of the login that made it)
    base_url,         \* self.req.base_url
    batch_ops         \* the concurrent operations of one batch (SpecSession)

vars == <<account_data, petkit_entities, entity_order, main_tasks, record_tasks,
          media_tasks, live_tasks, pc, last_stats, session, call, session_id,
          base_url, batch_ops>>

----------------------------------------------------------------------------
(* Bounds of the model *)

\* The devices of an account.
MaxDevices == 2
\* The largest timestamp of a litter event.
MaxTime == 2
\* The records and pet-out-graph entries one litter box returns in a cycle.
MaxRecs == 2

----------------------------------------------------------------------------
(* const.py: device models and their families *)

FEEDER == "feeder"
FEEDER_MINI == "feedermini"
D3 == "d3"
D4 == "d4"
D4S == "d4s"
D4H == "d4h"
D4SH == "d4sh"
T3 == "t3"
T4 == "t4"
T5 == "t5"
T6 == "t6"
T7 == "t7"
W4 == "w4"
W5 == "w5"
CTW2 == "ctw2"
CTW3 == "ctw3"
K2 == "k2"
K3 == "k3"
PET == "pet"

\* PetkitDomain.PASSPORT_PETKIT, and the gateway of the account's region
\* (RegionInfo.gateway).
PASSPORT_PETKIT == "https://passport.petkt.com/"
GATEWAY == "gateway"

DEVICES_LITTER_BOX == {T3, T4, T5, T6, T7}
LITTER_WITH_CAMERA == {T5, T6, T7}
LITTER_NO_CAMERA == {T3, T4}
FEEDER_WITH_CAMERA == {D4H, D4SH}
DEVICES_FEEDER == {FEEDER, FEEDER_MINI, D3, D4, D4S, D4H, D4SH}
DEVICES_WATER_FOUNTAIN == {W4, W5, CTW2, CTW3}
DEVICES_PURIFIER == {K2, K3}
ALL_DEVICES == DEVICES_LITTER_BOX \cup DEVICES_FEEDER
               \cup DEVICES_WATER_FOUNTAIN \cup DEVICES_PURIFIER

\* A type tag the library does not know (a model released later).
UnknownType == "zz9"

\* Every tag a device of the account can carry.
DeviceTypes == ALL_DEVICES \cup {UnknownType}

----------------------------------------------------------------------------
(* containers.py: Device.  device_name is lower-cased by the validators. *)

None == <<>>
Some(v) == <<v>>
IsNone(o) == o = <<>>
NotNone(o) == o # <<>>
Val(o) == o[1]

DeviceName(id) == IF id = 1 THEN "alpha" ELSE IF id = 2 THEN "beta" ELSE "gamma"

Device(id, type) ==
    [device_id |-> id, device_type |-> type, device_name |-> Some(DeviceName(id))]

\* The device list of an account: the i-th device has id i.
DeviceListOf(types) == [i \in 1..Len(types) |-> Device(i, types[i])]

RECURSIVE SeqsUpTo(_, _)
SeqsUpTo(S, n) ==
    IF n = 0 THEN {<<>>}
    ELSE LET shorter == SeqsUpTo(S, n - 1)
         IN  shorter \cup {Append(s, x) : s \in {t \in shorter : Len(t) = n - 1}, x \in S}

----------------------------------------------------------------------------
(* client.py: _prepare_tasks and its two helpers.  A task is the coroutine  *)
(* object: the device, the data class (or "Media" for _fetch_media) and    *)
(* its state, "created" until asyncio.gather schedules it.                 *)

Task(device, data_class) ==
    [device |-> device, data_class |-> data_class, st |-> "created", stored |-> FALSE]

fetch_device_data_task(device, data_class) == Task(device, data_class)

fetch_media_task(device) == Task(device, "Media")

\* A faulty _add_lb_task_by_type: the stats operation is added for every
\* litter box, with or without camera.
add_lb_task_stats_for_all(p_record_tasks, p_live_tasks, p_media_tasks, device_type, device) ==
    LET r1 == Append(p_record_tasks, fetch_device_data_task(device, "LitterStats"))
    IN  IF device_type \in LITTER_WITH_CAMERA
        THEN [record_tasks |-> Append(r1, fetch_device_data_task(device, "PetOutGraph")),
              media_tasks  |-> Append(p_media_tasks, fetch_media_task(device)),
              live_tasks   |-> Append(p_live_tasks, fetch_device_data_task(device, "LiveFeed"))]
        ELSE [record_tasks |-> r1, media_tasks |-> p_media_tasks, live_tasks |-> p_live_tasks]

\* A faulty _add_lb_task_by_type: the stats operation of a litter box
\* without camera is added twice.
add_lb_task_stats_twice(p_record_tasks, p_live_tasks, p_media_tasks, device_type, device) ==
    LET stats == fetch_device_data_task(device, "LitterStats")
        r1 == IF device_type \in LITTER_NO_CAMERA
              THEN Append(Append(p_record_tasks, stats), stats)
              ELSE p_record_tasks
    IN  IF device_type \in LITTER_WITH_CAMERA
        THEN [record_tasks |-> Append(r1, fetch_device_data_task(device, "PetOutGraph")),
              media_tasks  |-> Append(p_media_tasks, fetch_media_task(device)),
              live_tasks   |-> Append(p_live_tasks, fetch_device_data_task(device, "LiveFeed"))]
        ELSE [record_tasks |-> r1, media_tasks |-> p_media_tasks, live_tasks |-> p_live_tasks]

\* _add_lb_task_by_type(record_tasks, live_tasks, media_tasks, device_type, device):
\* the lists are named as the parameters are (the second parameter is live_tasks).
add_lb_task_by_type(p_record_tasks, p_live_tasks, p_media_tasks, device_type, device) ==
    LET r1 == IF device_type \in LITTER_NO_CAMERA
              THEN Append(p_record_tasks, fetch_device_data_task(device, "LitterStats"))
              ELSE p_record_tasks
    IN  IF device_type \in LITTER_WITH_CAMERA
        THEN [record_tasks |-> Append(r1, fetch_device_data_task(device, "PetOutGraph")),
              media_tasks  |-> Append(p_media_tasks, fetch_media_task(device)),
              live_tasks   |-> Append(p_live_tasks, fetch_device_data_task(device, "LiveFeed"))]
        ELSE [record_tasks |-> r1, media_tasks |-> p_media_tasks, live_tasks |-> p_live_tasks]

\* _add_feeder_task_by_type(media_tasks, live_tasks, device_type, device)
add_feeder_task_by_type(p_media_tasks, p_live_tasks, device_type, device) ==
    IF device_type \in FEEDER_WITH_CAMERA
    THEN [media_tasks |-> Append(p_media_tasks, fetch_media_task(device)),
          live_tasks  |-> Append(p_live_tasks, fetch_device_data_task(device, "LiveFeed"))]
    ELSE [media_tasks |-> p_media_tasks, live_tasks |-> p_live_tasks]

\* A faulty fall-through: a device of no known family gets a main operation.
prepare_other_as_purifier(acc, device) ==
    [acc EXCEPT !.main_tasks = Append(@, fetch_device_data_task(device, "Purifier"))]

\* The if/elif chain of the loop has no else: a device of no family adds
\* nothing.
prepare_other(acc, device) == acc

\* One turn of the loop of _prepare_tasks, on the four lists `acc`.
\* The litter-box call passes (record_tasks, media_tasks, live_tasks)
\* positionally: the callee's live_tasks is the caller's media_tasks.
prepare_device(acc, device) ==
    LET device_type == device.device_type IN
    IF device_type \in DEVICES_FEEDER THEN
        LET f == add_feeder_task_by_type(acc.media_tasks, acc.live_tasks, device_type, device)
        IN  [main_tasks   |-> Append(acc.main_tasks, fetch_device_data_task(device, "Feeder")),
             record_tasks |-> Append(acc.record_tasks, fetch_device_data_task(device, "FeederRecord")),
             media_tasks  |-> f.media_tasks,
             live_tasks   |-> f.live_tasks]
    ELSE IF device_type \in DEVICES_LITTER_BOX THEN
        LET l == add_lb_task_by_type(
                     Append(acc.record_tasks, fetch_device_data_task(device, "LitterRecord")),
                     acc.media_tasks, acc.live_tasks, device_type, device)
        IN  [main_tasks   |-> Append(acc.main_tasks, fetch_device_data_task(device, "Litter")),
             record_tasks |-> l.record_tasks,
             media_tasks  |-> l.live_tasks,
             live_tasks   |-> l.media_tasks]
    ELSE IF device_type \in DEVICES_WATER_FOUNTAIN THEN
        [acc EXCEPT !.main_tasks = Append(@, fetch_device_data_task(device, "WaterFountain")),
                    !.record_tasks = Append(@, fetch_device_data_task(device, "WaterFountainRecord"))]
    ELSE IF device_type \in DEVICES_PURIFIER THEN
        [acc EXCEPT !.main_tasks = Append(@, fetch_device_data_task(device, "Purifier"))]
    ELSE prepare_other(acc, device)

RECURSIVE prepare_from(_, _, _)
prepare_from(acc, device_list, i) ==
    IF i > Len(device_list) THEN acc
    ELSE prepare_from(prepare_device(acc, device_list[i]), device_list, i + 1)

NoTasks == [main_tasks |-> <<>>, record_tasks |-> <<>>, media_tasks |-> <<>>, live_tasks |-> <<>>]

prepare_tasks(device_list) == prepare_from(NoTasks, device_list, 1)

\* _collect_devices: the devices of every account, in order.
RECURSIVE collect_devices(_)
collect_devices(accounts) ==
    IF accounts = <<>> THEN <<>>
    ELSE Head(accounts).device_list \o collect_devices(Tail(accounts))

----------------------------------------------------------------------------
(* The entity map.  petkit_entities is total over Keys; Absent marks a key  *)
(* that is not in the dict.  entity_order lists the keys that are, in      *)
(* insertion order (the iteration order of a Python dict).                 *)

PetIds == {101}
\* The pet ids a litter record can carry: the known pets and a stranger.
RecordPetIds == PetIds \cup {102}

DeviceIds == 1..MaxDevices
Keys == DeviceIds \cup PetIds

Absent == [kind |-> "absent"]

\* A fetched value as a handler receives it: nothing yet, a list of typed
\* objects, or one typed object.
NoData == [shape |-> "none", items |-> <<>>]
ListData(items) == [shape |-> "list", items |-> items]
ObjData(obj) == [shape |-> "dict", items |-> <<obj>>]

\* data_class(**response) for Feeder, Litter, WaterFountain, Purifier: the
\* sub-category slots of a fresh object are None.
NewEntity(kind, settings) ==
    [kind |-> kind, device_nfo |-> None, settings |-> settings,
     device_records |-> NoData, device_stats |-> NoData,
     device_pet_graph_out |-> NoData, live_feed |-> NoData, medias |-> NoData]

\* device_data when the main response is a JSON list: a Python list object.
ListEntity == [kind |-> "list"]

\* containers.py: Pet, every derived field None.
NewPet(pet_id) ==
    [kind |-> "Pet", pet_id |-> pet_id, device_nfo |-> None,
     last_litter_usage |-> None, last_device_used |-> None,
     last_duration_usage |-> None, last_event_id |-> None,
     last_measured_weight |-> None, yowling_detected |-> None,
     abnormal_ph_detected |-> None, measured_ph |-> None,
     soft_stool_detected |-> None, last_urination |-> None,
     last_defecation |-> None]

PetDevice(pet_id) ==
    [device_id |-> pet_id, device_type |-> PET, device_name |-> Some("pet")]

Present(ents, k) == k \in DOMAIN ents /\ ents[k].kind # "absent"

\* dict assignment d[k] = v: a new key goes last, a known key keeps its place.
order_after(order, k) ==
    IF \E i \in 1..Len(order) : order[i] = k THEN order ELSE Append(order, k)

IsLitter(e) == e.kind = "Litter"
IsPet(e) == e.kind = "Pet"

----------------------------------------------------------------------------
(* client.py: the pet statistics reconciler.                                *)
(*                                                                         *)
(* A LitterRecord is [pet_id, timestamp, event_id, content, sub_content],  *)
(* a PetOutGraph is [pet_id, time, event_id, toilet_time, content]; every  *)
(* field is optional.  A run of a loop yields [pet, err]: err is set when  *)
(* Python raises TypeError on `None > int`, which ends the loop.           *)

Capitalize(name) ==
    IF name = "alpha" THEN "Alpha"
    ELSE IF name = "beta" THEN "Beta"
    ELSE IF name = "gamma" THEN "Gamma"
    ELSE name

\* pH readings are counted in tenths, and a mean is the reduced fraction
\* num/den of tenths: 7 is 70/1.
RECURSIVE Gcd(_, _)
Gcd(a, b) == IF b = 0 THEN a ELSE Gcd(b, a % b)

Frac(num, den) == LET g == Gcd(num, den) IN
    IF g = 0 THEN [num |-> 0, den |-> 1] ELSE [num |-> num \div g, den |-> den \div g]

RECURSIVE SumSeq(_)
SumSeq(s) == IF s = <<>> THEN 0 ELSE Head(s) + SumSeq(Tail(s))

\* statistics.mean
mean(readings) == Frac(SumSeq(readings), Len(readings))

\* calculate_duration
calculate_duration(start, end) ==
    IF IsNone(start) \/ IsNone(end) THEN 0 ELSE Val(end) - Val(start)

\* set_if_not_none
set_if_not_none(obj, attr, value) ==
    IF NotNone(value) THEN [obj EXCEPT ![attr] = value] ELSE obj

\* getattr(x, name, None) on an optional object
OptField(o, name) == IF IsNone(o) THEN None ELSE Val(o)[name]

\* A faulty init_pet_stats: the pH fields are seeded as soon as
\* abnormal_ph_detected is unset, whatever the other four hold.
init_pet_stats_ph_alone(pet, litter_data) ==
    LET p1 == IF /\ IsNone(pet.last_litter_usage)
                 /\ IsNone(pet.last_device_used)
                 /\ IsNone(pet.last_duration_usage)
                 /\ IsNone(pet.last_measured_weight)
              THEN [pet EXCEPT !.last_litter_usage = Some(0),
                               !.last_device_used = Some("Unknown"),
                               !.last_duration_usage = Some(0),
                               !.last_measured_weight = Some(0)]
              ELSE pet
        p2 == IF /\ IsNone(p1.yowling_detected)
                 /\ NotNone(litter_data.settings)
                 /\ OptField(litter_data.settings, "voice") = Some(1)
              THEN [p1 EXCEPT !.yowling_detected = Some(0)]
              ELSE p1
    IN  IF /\ IsNone(p2.abnormal_ph_detected)
           /\ NotNone(litter_data.settings)
           /\ OptField(litter_data.settings, "ph_detection") = Some(1)
        THEN [p2 EXCEPT !.abnormal_ph_detected = Some(0),
                        !.measured_ph = Some(Frac(70, 1)),
                        !.soft_stool_detected = Some(0),
                        !.last_urination = Some(0),
                        !.last_defecation = Some(0)]
        ELSE p2

\* init_pet_stats
init_pet_stats(pet, litter_data) ==
    LET p1 == IF /\ IsNone(pet.last_litter_usage)
                 /\ IsNone(pet.last_device_used)
                 /\ IsNone(pet.last_duration_usage)
                 /\ IsNone(pet.last_measured_weight)
              THEN [pet EXCEPT !.last_litter_usage = Some(0),
                               !.last_device_used = Some("Unknown"),
                               !.last_duration_usage = Some(0),
                               !.last_measured_weight = Some(0)]
              ELSE pet
        p2 == IF /\ IsNone(p1.yowling_detected)
                 /\ NotNone(litter_data.settings)
                 /\ OptField(litter_data.settings, "voice") = Some(1)
              THEN [p1 EXCEPT !.yowling_detected = Some(0)]
              ELSE p1
    IN  IF /\ IsNone(p2.abnormal_ph_detected)
           /\ IsNone(p2.measured_ph)
           /\ IsNone(p2.soft_stool_detected)
           /\ IsNone(p2.last_urination)
           /\ IsNone(p2.last_defecation)
           /\ NotNone(litter_data.settings)
           /\ OptField(litter_data.settings, "ph_detection") = Some(1)
        THEN [p2 EXCEPT !.abnormal_ph_detected = Some(0),
                        !.measured_ph = Some(Frac(70, 1)),
                        !.soft_stool_detected = Some(0),
                        !.last_urination = Some(0),
                        !.last_defecation = Some(0)]
        ELSE p2

\* A faulty comparison: any timestamp counts as newer.
newer_than_always(x, last) ==
    IF IsNone(last) THEN "yes"
    ELSE IF IsNone(x) THEN "raise"
    ELSE "yes"

\* `x > pet.last_litter_usage`, guarded by `pet.last_litter_usage is None or`:
\* "yes", "no", or "raise" when x is None and the pet's value is not.
newer_than(x, last) ==
    IF IsNone(last) THEN "yes"
    ELSE IF IsNone(x) THEN "raise"
    ELSE IF Val(x) > Val(last) THEN "yes" ELSE "no"

\* The body of the loop of _process_litter_no_camera for one record.
no_camera_record(acc, litter_data, stat) ==
    IF acc.err \/ stat.pet_id # Some(acc.pet.pet_id) THEN acc
    ELSE LET cmp == newer_than(stat.timestamp, acc.pet.last_litter_usage) IN
         IF cmp = "raise" THEN [acc EXCEPT !.err = TRUE]
         ELSE IF cmp = "no" THEN acc
         ELSE LET a == set_if_not_none(acc.pet, "last_litter_usage", stat.timestamp)
                  b == set_if_not_none(a, "last_measured_weight",
                                       OptField(stat.content, "pet_weight"))
                  c == set_if_not_none(b, "last_duration_usage",
                           IF NotNone(stat.content)
                           THEN Some(calculate_duration(Val(stat.content).time_in,
                                                        Val(stat.content).time_out))
                           ELSE None)
                  device_name == OptField(litter_data.device_nfo, "device_name")
                  d == set_if_not_none(c, "last_device_used",
                           IF NotNone(device_name)
                           THEN Some(Capitalize(Val(device_name))) ELSE None)
              IN  [acc EXCEPT !.pet = d]

RECURSIVE no_camera_loop(_, _, _, _)
no_camera_loop(acc, litter_data, records, i) ==
    IF i > Len(records) THEN acc
    ELSE no_camera_loop(no_camera_record(acc, litter_data, records[i]),
                        litter_data, records, i + 1)

\* `litter_data.device_records or []`, the records a loop iterates when the
\* slot holds one object being none that are LitterRecord.
RecordList(data) == IF data.shape = "list" THEN data.items ELSE <<>>

\* _process_litter_no_camera
process_litter_no_camera(pet, litter_data) ==
    no_camera_loop([pet |-> pet, err |-> FALSE], litter_data,
                   RecordList(litter_data.device_records), 1)

\* The first loop of _process_litter_camera, for one PetOutGraph entry.
camera_graph_entry(acc, litter_data, value) ==
    IF acc.err \/ value.pet_id # Some(acc.pet.pet_id) THEN acc
    ELSE LET cmp == newer_than(value.time, acc.pet.last_litter_usage) IN
         IF cmp = "raise" THEN [acc EXCEPT !.err = TRUE]
         ELSE IF cmp = "no" THEN acc
         ELSE LET a == set_if_not_none(acc.pet, "last_litter_usage",
                                       OptField(value.content, "time"))
                  b == set_if_not_none(a, "last_measured_weight",
                                       OptField(value.content, "pet_weight"))
                  c == set_if_not_none(b, "last_duration_usage", value.toilet_time)
                  device_name == OptField(litter_data.device_nfo, "device_name")
                  d == set_if_not_none(c, "last_device_used",
                           IF NotNone(device_name)
                           THEN Some(Capitalize(Val(device_name))) ELSE None)
                  e == set_if_not_none(d, "last_event_id", value.event_id)
              IN  [acc EXCEPT !.pet = e]

RECURSIVE camera_graph_loop(_, _, _, _)
camera_graph_loop(acc, litter_data, graph, i) ==
    IF i > Len(graph) THEN acc
    ELSE camera_graph_loop(camera_graph_entry(acc, litter_data, graph[i]),
                           litter_data, graph, i + 1)

\* value.sub_content and value.sub_content[0] and value.sub_content[0].content
SubContent0(value) ==
    IF IsNone(value.sub_content) \/ Val(value.sub_content) = <<>> THEN None
    ELSE OptField(Val(value.sub_content)[1], "content")

\* A faulty second loop: the record's event id is not compared.
camera_record_any_event(pet, value) ==
    IF value.pet_id # Some(pet.pet_id) THEN pet
    ELSE LET sc == SubContent0(value)
         IN  IF NotNone(sc)
             THEN [pet EXCEPT !.abnormal_ph_detected = Val(sc).ph_state,
                              !.soft_stool_detected = Val(sc).soft_stools]
             ELSE pet

\* A faulty second loop: measured_ph keeps its value when the record carries
\* no pH readings.
camera_record_keeps_ph(pet, value) ==
    IF value.pet_id # Some(pet.pet_id) \/ value.event_id # pet.last_event_id THEN pet
    ELSE LET sc == SubContent0(value)
             a == [pet EXCEPT !.yowling_detected =
                       IF NotNone(value.content) THEN Val(value.content).pet_voice
                       ELSE Some(0)]
             b == IF NotNone(sc)
                  THEN [a EXCEPT !.abnormal_ph_detected = Val(sc).ph_state,
                                 !.soft_stool_detected = Val(sc).soft_stools]
                  ELSE a
             c == IF NotNone(sc) /\ NotNone(Val(sc).detection_info)
                                 /\ Val(Val(sc).detection_info) # <<>>
                  THEN [b EXCEPT !.measured_ph = Some(mean(Val(Val(sc).detection_info)))]
                  ELSE b
             e == IF NotNone(sc) /\ Val(sc).urine_bolus = Some(1) /\ NotNone(value.timestamp)
                  THEN [c EXCEPT !.last_urination = value.timestamp] ELSE c
         IN  IF NotNone(sc) /\ Val(sc).hard_stools = Some(1) /\ NotNone(value.timestamp)
             THEN [e EXCEPT !.last_defecation = value.timestamp] ELSE e

\* The second loop of _process_litter_camera, for one LitterRecord.
camera_record(pet, value) ==
    IF value.pet_id # Some(pet.pet_id) \/ value.event_id # pet.last_event_id THEN pet
    ELSE LET sc == SubContent0(value)
             a == [pet EXCEPT !.yowling_detected =
                       IF NotNone(value.content) THEN Val(value.content).pet_voice
                       ELSE Some(0)]
             b == IF NotNone(sc)
                  THEN [a EXCEPT !.abnormal_ph_detected = Val(sc).ph_state] ELSE a
             c == IF NotNone(sc) /\ NotNone(Val(sc).detection_info)
                                 /\ Val(Val(sc).detection_info) # <<>>
                  THEN [b EXCEPT !.measured_ph = Some(mean(Val(Val(sc).detection_info)))]
                  ELSE [b EXCEPT !.measured_ph = None]
             d == IF NotNone(sc)
                  THEN [c EXCEPT !.soft_stool_detected = Val(sc).soft_stools] ELSE c
             e == IF NotNone(sc) /\ Val(sc).urine_bolus = Some(1) /\ NotNone(value.timestamp)
                  THEN [d EXCEPT !.last_urination = value.timestamp] ELSE d
         IN  IF NotNone(sc) /\ Val(sc).hard_stools = Some(1) /\ NotNone(value.timestamp)
             THEN [e EXCEPT !.last_defecation = value.timestamp] ELSE e

RECURSIVE camera_record_loop(_, _, _)
camera_record_loop(pet, records, i) ==
    IF i > Len(records) THEN pet
    ELSE camera_record_loop(camera_record(pet, records[i]), records, i + 1)

\* _process_litter_camera
process_litter_camera(pet, litter_data) ==
    LET device_records == RecordList(litter_data.device_records)
        device_pet_graph == RecordList(litter_data.device_pet_graph_out)
        first == camera_graph_loop([pet |-> pet, err |-> FALSE], litter_data,
                                   device_pet_graph, 1)
    IN  IF first.err THEN first
        ELSE [pet |-> camera_record_loop(first.pet, device_records, 1), err |-> FALSE]

\* get_pets_list: the Pet entities, in the order of the dict.
RECURSIVE KeysOfKind(_, _, _)
KeysOfKind(ents, order, kind) ==
    IF order = <<>> THEN <<>>
    ELSE (IF ents[Head(order)].kind = kind THEN <<Head(order)>> ELSE <<>>)
         \o KeysOfKind(ents, Tail(order), kind)

\* The loop of populate_pet_stats over the pets, from the i-th on.  An
\* exception leaves the pets already handled as they are and ends the call.
RECURSIVE populate_from(_, _, _, _)
populate_from(ents, pets_list, litter_data, i) ==
    IF i > Len(pets_list) THEN [ents |-> ents, err |-> FALSE]
    ELSE LET k == pets_list[i]
             device_type == Val(litter_data.device_nfo).device_type
             r == IF device_type \in {T3, T4}
                  THEN process_litter_no_camera(init_pet_stats(ents[k], litter_data),
                                                litter_data)
                  ELSE IF device_type \in {T5, T6}
                  THEN process_litter_camera(init_pet_stats(ents[k], litter_data),
                                             litter_data)
                  ELSE [pet |-> ents[k], err |-> FALSE]
             next == [ents EXCEPT ![k] = r.pet]
         IN  IF r.err THEN [ents |-> next, err |-> TRUE]
             ELSE populate_from(next, pets_list, litter_data, i + 1)

\* populate_pet_stats
populate_pet_stats(ents, order, litter_data) ==
    IF IsNone(litter_data.device_nfo) THEN [ents |-> ents, err |-> FALSE]
    ELSE populate_from(ents, KeysOfKind(ents, order, "Pet"), litter_data, 1)

\* _execute_stats_tasks: one populate_pet_stats task per Litter entity, run
\* one after the other in dict order (none of them ever suspends); gather
\* re-raises the first exception after every task has run.
RECURSIVE stats_from(_, _, _, _)
stats_from(acc, order, litters, i) ==
    IF i > Len(litters) THEN acc
    ELSE LET r == populate_pet_stats(acc.ents, order, acc.ents[litters[i]])
         IN  stats_from([ents |-> r.ents, err |-> acc.err \/ r.err], order, litters, i + 1)

execute_stats_tasks(ents, order) ==
    stats_from([ents |-> ents, err |-> FALSE], order, KeysOfKind(ents, order, "Litter"), 1)

----------------------------------------------------------------------------
(* client.py: the data handlers.  Each yields [ents, order, raised]. *)

Handled(ents, order) == [ents |-> ents, order |-> order, raised |-> FALSE]

\* A faulty main handler: the map is rebuilt around the entry it stores.
handle_device_data_rebuilds(ents, order, device, device_data) ==
    LET entity == IF device_data.shape = "list" THEN ListEntity
                  ELSE [device_data.items[1] EXCEPT !.device_nfo = Some(device)]
    IN  [ents |-> [k \in Keys |-> IF k = device.device_id THEN entity ELSE Absent],
         order |-> <<device.device_id>>, raised |-> device_data.shape = "list"]

\* _handle_device_data.  A list has no attribute device_nfo: the entry is
\* replaced by the list and the second assignment raises AttributeError.
handle_device_data(ents, order, device, device_data) ==
    IF device_data.shape = "list"
    THEN [ents |-> [ents EXCEPT ![device.device_id] = ListEntity],
          order |-> order_after(order, device.device_id), raised |-> TRUE]
    ELSE Handled([ents EXCEPT ![device.device_id] =
                      [device_data.items[1] EXCEPT !.device_nfo = Some(device)]],
                 order_after(order, device.device_id))

\* A faulty records handler: any device entity takes the records.
handle_device_records_any_device(ents, order, device, device_data) ==
    LET entity == ents[device.device_id] IN
    IF entity.kind \in {"Feeder", "Litter", "WaterFountain", "Purifier"}
    THEN Handled([ents EXCEPT ![device.device_id].device_records = device_data], order)
    ELSE Handled(ents, order)

\* _handle_device_records
handle_device_records(ents, order, device, device_data) ==
    LET entity == ents[device.device_id] IN
    IF entity.kind \in {"Feeder", "Litter", "WaterFountain"}
    THEN Handled([ents EXCEPT ![device.device_id].device_records = device_data], order)
    ELSE Handled(ents, order)

\* A faulty stats handler: the payload goes to both slots of a Litter.
handle_device_stats_both_slots(ents, order, device, device_data) ==
    LET entity == ents[device.device_id] IN
    IF entity.kind = "Litter"
    THEN Handled([ents EXCEPT ![device.device_id] =
                      [entity EXCEPT !.device_stats = device_data,
                                     !.device_pet_graph_out = device_data]], order)
    ELSE Handled(ents, order)

\* A faulty stats handler: a list payload is appended to the list the slot
\* holds.
handle_device_stats_appends(ents, order, device, device_data) ==
    LET entity == ents[device.device_id]
        slot == IF device.device_type \in LITTER_NO_CAMERA
                THEN "device_stats" ELSE "device_pet_graph_out"
    IN  IF entity.kind = "Litter" /\ device.device_type \in DEVICES_LITTER_BOX
        THEN Handled([ents EXCEPT ![device.device_id][slot] =
                          IF device_data.shape = "list" /\ @.shape = "list"
                          THEN ListData(@.items \o device_data.items)
                          ELSE device_data], order)
        ELSE Handled(ents, order)

\* _handle_device_stats
handle_device_stats(ents, order, device, device_data) ==
    LET entity == ents[device.device_id] IN
    IF entity.kind = "Litter"
    THEN LET a == IF device.device_type \in LITTER_NO_CAMERA
                  THEN [entity EXCEPT !.device_stats = device_data] ELSE entity
             b == IF device.device_type \in LITTER_WITH_CAMERA
                  THEN [a EXCEPT !.device_pet_graph_out = device_data] ELSE a
         IN  Handled([ents EXCEPT ![device.device_id] = b], order)
    ELSE Handled(ents, order)

\* A faulty live handler: a missing entry is created to hold the feed.
handle_live_data_creates(ents, order, device, device_data) ==
    LET entity == ents[device.device_id] IN
    IF entity.kind \in {"Feeder", "Litter"}
    THEN Handled([ents EXCEPT ![device.device_id].live_feed = device_data], order)
    ELSE IF entity.kind = "absent"
    THEN Handled([ents EXCEPT ![device.device_id] =
                      [NewEntity("Feeder", None) EXCEPT !.live_feed = device_data]],
                 order_after(order, device.device_id))
    ELSE Handled(ents, order)

\* _handle_live_data
handle_live_data(ents, order, device, device_data) ==
    LET entity == ents[device.device_id] IN
    IF entity.kind \in {"Feeder", "Litter"}
    THEN Handled([ents EXCEPT ![device.device_id].live_feed = device_data], order)
    ELSE Handled(ents, order)

\* data_class.data_type
data_type(data_class) ==
    IF data_class \in {"Feeder", "Litter", "WaterFountain", "Purifier"} THEN "deviceData"
    ELSE IF data_class \in {"FeederRecord", "LitterRecord", "WaterFountainRecord"}
    THEN "deviceRecords"
    ELSE IF data_class \in {"LitterStats", "PetOutGraph"} THEN "deviceStats"
    ELSE "liveData"

\* The tail of _fetch_device_data: data_handlers.get(data_class.data_type).
dispatch(ents, order, device, data_class, device_data) ==
    LET t == data_type(data_class) IN
    IF t = "deviceData" THEN handle_device_data(ents, order, device, device_data)
    ELSE IF t = "deviceRecords" THEN handle_device_records(ents, order, device, device_data)
    ELSE IF t = "deviceStats" THEN handle_device_stats(ents, order, device, device_data)
    ELSE handle_live_data(ents, order, device, device_data)

\* _fetch_media: petkit_entities[device.device_id] raises KeyError when the
\* key is missing; device_entity.medias = ... raises on a list entity, which
\* has no such attribute.
store_medias(ents, order, device, medias) ==
    LET entity == ents[device.device_id] IN
    IF entity.kind \in {"absent", "list"}
    THEN [ents |-> ents, order |-> order, raised |-> TRUE]
    ELSE Handled([ents EXCEPT ![device.device_id].medias = medias], order)

----------------------------------------------------------------------------
(* What the servers can answer.  The typed objects keep the fields the     *)
(* client reads.                                                           *)

LRContent(pet_weight, time_in, time_out, pet_voice) ==
    [pet_weight |-> pet_weight, time_in |-> time_in, time_out |-> time_out,
     pet_voice |-> pet_voice]

LRSubContent(ph_state, soft_stools, hard_stools, urine_bolus, detection_info) ==
    [content |-> Some([ph_state |-> ph_state, soft_stools |-> soft_stools,
                       hard_stools |-> hard_stools, urine_bolus |-> urine_bolus,
                       detection_info |-> detection_info])]

LitterRecord(pet_id, timestamp, event_id, content, sub_content) ==
    [pet_id |-> pet_id, timestamp |-> timestamp, event_id |-> event_id,
     content |-> content, sub_content |-> sub_content]

PetOutGraph(pet_id, time, event_id, toilet_time, content) ==
    [pet_id |-> pet_id, time |-> time, event_id |-> event_id,
     toilet_time |-> toilet_time, content |-> content]

Settings(voice, ph_detection) == Some([voice |-> Some(voice), ph_detection |-> Some(ph_detection)])

\* The record and the pet-out-graph entry of one visit of pet 101 at time 1.
VisitRecord ==
    LitterRecord(Some(101), Some(1), Some(1), Some(LRContent(Some(40), Some(1), Some(3), Some(1))),
                 Some(<<Some(LRSubContent(Some(1), Some(0), Some(1), Some(1), Some(<<68, 72>>)))>>))

VisitGraph == PetOutGraph(Some(101), Some(1), Some(1), Some(2), Some([time |-> Some(1), pet_weight |-> Some(40)]))

\* The payloads a cycle of Spec draws from, per data class.  The answer to a
\* main request is a JSON object or a JSON list (the two shapes
\* _fetch_device_data accepts).
CycleData(data_class) ==
    IF data_class = "Litter"
    THEN {ObjData(NewEntity("Litter", Settings(1, 1))), ListData(<<>>)}
    ELSE IF data_class \in {"Feeder", "WaterFountain", "Purifier"}
    THEN {ObjData(NewEntity(data_class, None)), ListData(<<>>)}
    ELSE IF data_class = "LitterRecord" THEN {ListData(<<VisitRecord>>)}
    ELSE IF data_class = "PetOutGraph" THEN {ListData(<<VisitGraph>>)}
    ELSE IF data_class = "LitterStats" THEN {ObjData([total_time |-> 0])}
    ELSE IF data_class = "LiveFeed" THEN {ObjData([channel_id |-> None])}
    ELSE {ListData(<<>>)}

----------------------------------------------------------------------------
(* get_devices_data: the batches and asyncio.gather *)

Batches == <<"main", "records", "media", "live">>
BatchNames == {Batches[i] : i \in 1..Len(Batches)}

\* A faulty sequencing: the reconciler follows the media batch.
next_batch_without_live(b) ==
    IF b = "main" THEN "records"
    ELSE IF b = "records" THEN "media"
    ELSE "stats"

\* The statement that follows `await asyncio.gather(*<batch>)`.
next_batch(b) ==
    IF b = "main" THEN "records"
    ELSE IF b = "records" THEN "media"
    ELSE IF b = "media" THEN "live"
    ELSE "stats"

TasksOf(b) ==
    IF b = "main" THEN main_tasks
    ELSE IF b = "records" THEN record_tasks
    ELSE IF b = "media" THEN media_tasks
    ELSE live_tasks

SetTasks(b, new) ==
    /\ main_tasks' = IF b = "main" THEN new ELSE main_tasks
    /\ record_tasks' = IF b = "records" THEN new ELSE record_tasks
    /\ media_tasks' = IF b = "media" THEN new ELSE media_tasks
    /\ live_tasks' = IF b = "live" THEN new ELSE live_tasks

AllTasks == main_tasks \o record_tasks \o media_tasks \o live_tasks

StatesOf(tasks) == {tasks[i].st : i \in 1..Len(tasks)}

\* Faulty awaits: one that returns with the first task that returns
\* (asyncio.wait with FIRST_COMPLETED), one that takes a raised task for a
\* returned one (gather with return_exceptions=True).
gather_first_completed(tasks) == tasks = <<>> \/ "done" \in StatesOf(tasks)

gather_return_exceptions(tasks) == StatesOf(tasks) \subseteq {"done", "failed"}

\* `await asyncio.gather(*tasks)` returns: every task has returned.
gather_returns(tasks) == StatesOf(tasks) \subseteq {"done"}

\* `await asyncio.gather(*tasks)` raises: a task has raised (the others are
\* left running).
gather_raises(tasks) == "failed" \in StatesOf(tasks)

\* The first step of a task, up to its first suspension.  _fetch_media
\* looks the entity up (KeyError when it is absent); _fetch_device_data
\* returns at once when the data class has no endpoint for the device type
\* (LiveFeed.get_endpoint always has one) and else sends its request.
first_step(ents, task, has_endpoint) ==
    IF task.data_class = "Media"
    THEN (IF Present(ents, task.device.device_id) THEN "waiting" ELSE "failed")
    ELSE IF has_endpoint \/ task.data_class = "LiveFeed" THEN "waiting"
    ELSE "done"

----------------------------------------------------------------------------
(* A call of _fetch_device_data or send_api_request, step by step (see     *)
(* SpecFetch).  The other specifications take a request as one step and    *)
(* leave session and call as they are; session_id, base_url and batch_ops    *)
(* are followed in SpecSession alone.                                      *)

\* op: "none", "fetch", "media" or "command"; at: "idle", "endpoint",
\* "session", "request", "response", "returned" or "raised"; endpoint:
\* "unresolved", "none" or "found"; outcomes: what each HTTP attempt of the
\* call met; body: the decoded response; payload: the device_data handed to
\* the handler; error: the exception that left the call; value: what the
\* call returned.
NoCall ==
    [op |-> "none", key |-> 0, device |-> None, data_class |-> "", action |-> "",
     at |-> "idle", endpoint |-> "unresolved", validated |-> FALSE,
     outcomes |-> <<>>, body |-> None, payload |-> None, error |-> "",
     value |-> None]

----------------------------------------------------------------------------
(* The refresh cycle as a state machine.                                    *)
(*   pc: "idle" (no call yet), "account" (awaiting _get_account_data),     *)
(*   a batch name (awaiting its gather), "stats" (about to await           *)
(*   _execute_stats_tasks), "done" (returned), "raised" (an exception left *)
(*   get_devices_data).  A caller starts the next cycle once the tasks of  *)
(*   the previous one have all ended.                                      *)

NoEntities == [k \in Keys |-> Absent]

\* last_stats: whether _execute_stats_tasks has run in this cycle, whether it
\* raised, and the pets as they were when it started.
PetsOf(ents) == [k \in PetIds |-> ents[k]]

NoStats == [ran |-> FALSE, err |-> FALSE, before |-> PetsOf(NoEntities)]

\* The sub-lists of s of at most n elements, in the order of s.
RECURSIVE SubSeqs(_, _)
SubSeqs(s, n) ==
    IF s = <<>> THEN {<<>>}
    ELSE LET rest == SubSeqs(Tail(s), n)
         IN  rest \cup {<<Head(s)>> \o t : t \in {u \in rest : Len(u) < n}}

\* The accounts the server can return to Spec: at most one, whose pets are
\* PetIds and whose devices are at most MaxDevices of a household of litter
\* boxes or of a household with a camera feeder, each with a device of a
\* type the library does not know, or of a household with a water fountain
\* and a purifier.
Households == {<<T4, T6, UnknownType>>, <<D4SH, UnknownType>>, <<W5, K2>>}

Account(types) == [device_list |-> DeviceListOf(types), pet_list |-> PetIds]

CycleAccounts ==
    {Account(types) : types \in UNION {SubSeqs(h, MaxDevices) : h \in Households}}

RECURSIVE AppendAll(_, _)
AppendAll(order, ks) ==
    IF ks = {} THEN order
    ELSE LET k == CHOOSE x \in ks : \A y \in ks : x <= y
         IN  AppendAll(order_after(order, k), ks \ {k})

\* _get_account_data, first part: the pets of the accounts enter the map
\* as fresh Pet objects.
seed_pets(ents, pet_ids) ==
    [k \in Keys |-> IF k \in pet_ids
                    THEN [NewPet(k) EXCEPT !.device_nfo = Some(PetDevice(k))]
                    ELSE ents[k]]

Planned(device_list) ==
    LET t == prepare_tasks(device_list) IN
    /\ main_tasks' = t.main_tasks
    /\ record_tasks' = t.record_tasks
    /\ media_tasks' = t.media_tasks
    /\ live_tasks' = t.live_tasks

Init ==
    /\ account_data = <<>>
    /\ petkit_entities = NoEntities
    /\ entity_order = <<>>
    /\ main_tasks = <<>>
    /\ record_tasks = <<>>
    /\ media_tasks = <<>>
    /\ live_tasks = <<>>
    /\ pc = "idle"
    /\ last_stats = NoStats
    /\ session = "none"
    /\ session_id = 0 /\ base_url = PASSPORT_PETKIT /\ batch_ops = <<>>
    /\ call = NoCall

\* A faulty start of cycle: the account data are fetched every time.
needs_account_data_always(acc) == TRUE

\* get_devices_data: `if not self.account_data`.
needs_account_data(acc) == acc = <<>>

\* get_devices_data is called.
StartCycle ==
    /\ pc \in {"idle", "done", "raised"}
    /\ "waiting" \notin StatesOf(AllTasks)
    /\ IF needs_account_data(account_data)
       THEN /\ pc' = "account"
            /\ main_tasks' = <<>> /\ record_tasks' = <<>>
            /\ media_tasks' = <<>> /\ live_tasks' = <<>>
       ELSE /\ pc' = "main"
            /\ Planned(collect_devices(account_data))
    /\ last_stats' = NoStats
    /\ UNCHANGED <<account_data, petkit_entities, entity_order>>
    /\ UNCHANGED <<session, call, session_id, base_url, batch_ops>>

\* _get_account_data returns: the family list (possibly empty) is stored,
\* the pets are seeded, the pet details are fetched.
AccountDataFetched ==
    /\ pc = "account"
    /\ \E accounts \in {<<>>} \cup {<<a>> : a \in CycleAccounts} :
         LET pet_ids == IF accounts = <<>> THEN {} ELSE accounts[1].pet_list IN
         /\ account_data' = accounts
         /\ petkit_entities' = seed_pets(petkit_entities, pet_ids)
         /\ entity_order' = AppendAll(entity_order, pet_ids)
         /\ \/ /\ pc' = "main"
               /\ Planned(collect_devices(accounts))
            \/ /\ pc' = "raised"     \* the pet details request raises
               /\ UNCHANGED <<main_tasks, record_tasks, media_tasks, live_tasks>>
    /\ UNCHANGED last_stats
    /\ UNCHANGED <<session, call, session_id, base_url, batch_ops>>

\* The family list request raises.
AccountDataFails ==
    /\ pc = "account"
    /\ pc' = "raised"
    /\ UNCHANGED <<account_data, petkit_entities, entity_order, main_tasks,
                   record_tasks, media_tasks, live_tasks, last_stats>>
    /\ UNCHANGED <<session, call, session_id, base_url, batch_ops>>

\* asyncio.gather schedules the tasks of batch b and each runs its first step.
Launch(b) ==
    /\ pc = b
    /\ TasksOf(b) # <<>>
    /\ StatesOf(TasksOf(b)) = {"created"}
    /\ \E with_endpoint \in SUBSET (1..Len(TasksOf(b))) :
         SetTasks(b, [i \in 1..Len(TasksOf(b)) |->
                        [TasksOf(b)[i] EXCEPT !.st =
                            first_step(petkit_entities, TasksOf(b)[i], i \in with_endpoint)]])
    /\ UNCHANGED <<account_data, petkit_entities, entity_order, pc, last_stats>>
    /\ UNCHANGED <<session, call, session_id, base_url, batch_ops>>

\* The request of a waiting task raises (after the transport's retries).
TaskFails(b, i) ==
    /\ TasksOf(b)[i].st = "waiting"
    /\ SetTasks(b, [TasksOf(b) EXCEPT ![i].st = "failed"])
    /\ UNCHANGED <<account_data, petkit_entities, entity_order, pc, last_stats>>
    /\ UNCHANGED <<session, call, session_id, base_url, batch_ops>>

\* The response is neither a list nor a dict: logged, the task returns.
TaskBadShape(b, i) ==
    /\ TasksOf(b)[i].st = "waiting"
    /\ TasksOf(b)[i].data_class # "Media"
    /\ SetTasks(b, [TasksOf(b) EXCEPT ![i].st = "done"])
    /\ UNCHANGED <<account_data, petkit_entities, entity_order, pc, last_stats>>
    /\ UNCHANGED <<session, call, session_id, base_url, batch_ops>>

\* The attribute of the entity an operation assigns ("entry": the map entry
\* itself).
WrittenSlot(task) ==
    IF task.data_class = "Media" THEN "medias"
    ELSE IF data_type(task.data_class) = "deviceData" THEN "entry"
    ELSE IF data_type(task.data_class) = "deviceRecords" THEN "device_records"
    ELSE IF data_type(task.data_class) = "deviceStats"
    THEN IF task.device.device_type \in LITTER_NO_CAMERA
         THEN "device_stats" ELSE "device_pet_graph_out"
    ELSE "live_feed"

\* Whether the task's run has replaced the map entry of its device (the
\* `stored` mark of a task): the main handler does whenever it runs and
\* does not raise; the other operations assign attributes of the entry.
Stored(r, task, device_data) == ~r.raised /\ WrittenSlot(task) = "entry"

\* The response arrives: the task builds the typed payload and runs the
\* handler of its data type (or stores the medias).
TaskCompletes(b, i) ==
    /\ TasksOf(b)[i].st = "waiting"
    /\ LET task == TasksOf(b)[i] IN
       \E device_data \in CycleData(task.data_class) :
         LET r == IF task.data_class = "Media"
                  THEN store_medias(petkit_entities, entity_order, task.device, device_data)
                  ELSE dispatch(petkit_entities, entity_order, task.device,
                                task.data_class, device_data)
         IN  /\ petkit_entities' = r.ents
             /\ entity_order' = r.order
             /\ SetTasks(b, [TasksOf(b) EXCEPT
                             ![i].st = IF r.raised THEN "failed" ELSE "done",
                             ![i].stored = Stored(r, task, device_data)])
    /\ UNCHANGED <<account_data, pc, last_stats>>
    /\ UNCHANGED <<session, call, session_id, base_url, batch_ops>>

\* `await asyncio.gather(*<batch b>)` returns.
GatherReturns(b) ==
    /\ pc = b
    /\ gather_returns(TasksOf(b))
    /\ pc' = next_batch(b)
    /\ UNCHANGED <<account_data, petkit_entities, entity_order, main_tasks,
                   record_tasks, media_tasks, live_tasks, last_stats>>
    /\ UNCHANGED <<session, call, session_id, base_url, batch_ops>>

\* `await asyncio.gather(*<batch b>)` raises the exception of a task;
\* nothing in get_devices_data catches it.
GatherRaises(b) ==
    /\ pc = b
    /\ gather_raises(TasksOf(b))
    /\ pc' = "raised"
    /\ UNCHANGED <<account_data, petkit_entities, entity_order, main_tasks,
                   record_tasks, media_tasks, live_tasks, last_stats>>
    /\ UNCHANGED <<session, call, session_id, base_url, batch_ops>>

\* `await self._execute_stats_tasks()` and the return of get_devices_data.
ExecuteStatsTasks ==
    /\ pc = "stats"
    /\ LET r == execute_stats_tasks(petkit_entities, entity_order) IN
       /\ petkit_entities' = r.ents
       /\ pc' = IF r.err THEN "raised" ELSE "done"
       /\ last_stats' = [ran |-> TRUE, err |-> r.err, before |-> PetsOf(petkit_entities)]
    /\ UNCHANGED <<account_data, entity_order, main_tasks, record_tasks,
                   media_tasks, live_tasks>>
    /\ UNCHANGED <<session, call, session_id, base_url, batch_ops>>

Next ==
    \/ StartCycle
    \/ AccountDataFetched
    \/ AccountDataFails
    \/ \E b \in BatchNames : Launch(b)
    \/ \E b \in BatchNames : \E i \in 1..Len(TasksOf(b)) : TaskFails(b, i)
    \/ \E b \in BatchNames : \E i \in 1..Len(TasksOf(b)) : TaskBadShape(b, i)
    \/ \E b \in BatchNames : \E i \in 1..Len(TasksOf(b)) : TaskCompletes(b, i)
    \/ \E b \in BatchNames : GatherReturns(b)
    \/ \E b \in BatchNames : GatherRaises(b)
    \/ ExecuteStatsTasks

Spec == Init /\ [][Next]_vars

----------------------------------------------------------------------------
(* SpecPlan: the planner alone, on every device list of at most MaxDevices  *)
(* devices of any type.  It starts where a first call has stored the       *)
(* account and then raised on the pet details request.                     *)

PlanAccounts ==
    {[device_list |-> DeviceListOf(types), pet_list |-> {}] :
        types \in SeqsUpTo(DeviceTypes, MaxDevices)}

InitPlan ==
    /\ account_data \in {<<a>> : a \in PlanAccounts}
    /\ petkit_entities = NoEntities
    /\ entity_order = <<>>
    /\ main_tasks = <<>>
    /\ record_tasks = <<>>
    /\ media_tasks = <<>>
    /\ live_tasks = <<>>
    /\ pc = "raised"
    /\ last_stats = NoStats
    /\ session = "none"
    /\ session_id = 0 /\ base_url = PASSPORT_PETKIT /\ batch_ops = <<>>
    /\ call = NoCall

NextPlan == StartCycle

SpecPlan == InitPlan /\ [][NextPlan]_vars

----------------------------------------------------------------------------
(* SpecRecon: the reconciler on the data of litter boxes.  The account has  *)
(* a camera-less litter box (device 1, t4) and a camera litter box         *)
(* (device 2, t6), or one t7 litter box, and the pets PetIds.  Every       *)
(* request of a cycle answers and a batch is one step: MainFetched is the  *)
(* main batch, RecordsFetched the records, media and live batches, in      *)
(* which the litter boxes answer with data drawn from the sets below,      *)
(* MaxRecs items at most in a cycle.                                       *)

ReconAccount == Account(<<T4, T6>>)

\* The accounts of SpecRecon: the two litter boxes above, or one t7 litter box.
ReconAccounts == {ReconAccount, Account(<<T7>>)}

\* A visit of pet 101 to the camera-less litter box at time t.
NoCameraVisit(t) ==
    LitterRecord(Some(101), Some(t), None,
                 Some(LRContent(Some(t), Some(t), Some(t + t), None)), None)

\* The records the camera-less litter box can return: a visit at each time,
\* a record without timestamp, a record of an unknown pet.
NoCameraRecords ==
    {NoCameraVisit(t) : t \in 1..MaxTime}
    \cup {LitterRecord(Some(101), None, None,
                       Some(LRContent(Some(0), Some(1), Some(1), None)), None),
          LitterRecord(Some(102), Some(MaxTime), None,
                       Some(LRContent(Some(0), Some(1), Some(1), None)), None)}

\* A pet-out-graph entry of pet 101: the entry's own time, its event id (one
\* per time), and a content that carries a time of its own; the content of
\* one entry is missing.
GraphEntry(time, content) == PetOutGraph(Some(101), Some(time), Some(time), Some(time), content)

GraphEntries ==
    UNION {{GraphEntry(t, Some([time |-> Some(t), pet_weight |-> Some(t)])),
            GraphEntry(t, Some([time |-> Some(0), pet_weight |-> Some(t)]))} :
           t \in 1..MaxTime}
    \cup {GraphEntry(MaxTime, None)}

\* A record of the camera litter box for event e of pet 101.
HealthRecord(e, ph_state) ==
    LitterRecord(Some(101), Some(e), Some(e), Some(LRContent(None, None, None, Some(1))),
                 Some(<<Some(LRSubContent(Some(ph_state), Some(0), Some(0), Some(1),
                                          Some(<<68, 72>>)))>>))

HealthRecords == {HealthRecord(e, 1) : e \in 1..MaxTime} \cup {HealthRecord(1, 0)}

\* What one litter box can answer in a cycle with at most n items:
\* [records, graph].
NoCameraAnswers(n) ==
    {[records |-> r, graph |-> <<>>] : r \in SeqsUpTo(NoCameraRecords, n)}

CameraAnswers(n) ==
    UNION {{[records |-> r, graph |-> g] : g \in SeqsUpTo(GraphEntries, n - Len(r))} :
           r \in SeqsUpTo(HealthRecords, n)}

Answers(device, n) ==
    IF device.device_type \in LITTER_NO_CAMERA THEN NoCameraAnswers(n)
    ELSE CameraAnswers(n)

\* What the litter boxes `devices` can answer in a cycle, one answer per
\* device, with at most n items in all.
RECURSIVE AnswerLists(_, _)
AnswerLists(devices, n) ==
    IF devices = <<>> THEN {<<>>}
    ELSE UNION {{<<a>> \o rest :
                    rest \in AnswerLists(Tail(devices), n - Len(a.records) - Len(a.graph))} :
                a \in Answers(Head(devices), n)}

EmptyAnswer == [records |-> <<>>, graph |-> <<>>]

LitterSettings(device) ==
    IF device.device_type \in LITTER_WITH_CAMERA THEN Settings(1, 1) ELSE None

\* The main handler for each device of `devices` in turn.
RECURSIVE fetch_main(_, _)
fetch_main(m, devices) ==
    IF devices = <<>> THEN m
    ELSE fetch_main(handle_device_data(m.ents, m.order, Head(devices),
                        ObjData(NewEntity("Litter", LitterSettings(Head(devices))))),
                    Tail(devices))

\* The records handler, and for a camera litter box the stats handler, for
\* each device of `devices`; the i-th device answers answers[i].
RECURSIVE fetch_records(_, _, _)
fetch_records(m, devices, answers) ==
    IF devices = <<>> THEN m
    ELSE LET device == Head(devices)
             a == Head(answers)
             r == handle_device_records(m.ents, m.order, device, ListData(a.records))
             g == IF device.device_type \in LITTER_WITH_CAMERA
                  THEN handle_device_stats(r.ents, r.order, device, ListData(a.graph))
                  ELSE r
         IN  fetch_records(g, Tail(devices), Tail(answers))

RECURSIVE MarkDone(_)
MarkDone(tasks) ==
    IF tasks = <<>> THEN <<>>
    ELSE <<[Head(tasks) EXCEPT !.st = "done"]>> \o MarkDone(Tail(tasks))

Reverse(s) == [i \in 1..Len(s) |-> s[Len(s) + 1 - i]]

InitRecon ==
    /\ account_data \in {<<a>> : a \in ReconAccounts}
    /\ petkit_entities = seed_pets(NoEntities, PetIds)
    /\ entity_order = AppendAll(<<>>, PetIds)
    /\ main_tasks = <<>>
    /\ record_tasks = <<>>
    /\ media_tasks = <<>>
    /\ live_tasks = <<>>
    /\ pc = "raised"
    /\ last_stats = NoStats
    /\ session = "none"
    /\ session_id = 0 /\ base_url = PASSPORT_PETKIT /\ batch_ops = <<>>
    /\ call = NoCall

\* get_devices_data up to the return of the main batch's gather.
MainFetched ==
    /\ pc \in {"done", "raised"}
    /\ account_data # <<>>
    /\ LET devices == collect_devices(account_data)
           t == prepare_tasks(devices)
       IN  /\ main_tasks' = MarkDone(t.main_tasks)
           /\ record_tasks' = t.record_tasks
           /\ media_tasks' = t.media_tasks
           /\ live_tasks' = t.live_tasks
           \* the main requests answer in the order of the list or in the
           \* reverse order
           /\ \E answered \in {devices, Reverse(devices)} :
                 LET m == fetch_main(Handled(petkit_entities, entity_order), answered)
                 IN  /\ petkit_entities' = m.ents
                     /\ entity_order' = m.order
    /\ pc' = "records"
    /\ last_stats' = NoStats
    /\ UNCHANGED account_data
    /\ UNCHANGED <<session, call, session_id, base_url, batch_ops>>

\* From there up to `await self._execute_stats_tasks()`.
RecordsFetched ==
    /\ pc = "records"
    /\ LET devices == collect_devices(account_data) IN
       \E answers \in AnswerLists(devices, MaxRecs) :
          LET m == fetch_records(Handled(petkit_entities, entity_order), devices, answers)
          IN  /\ petkit_entities' = m.ents
              /\ entity_order' = m.order
    /\ record_tasks' = MarkDone(record_tasks)
    /\ media_tasks' = MarkDone(media_tasks)
    /\ live_tasks' = MarkDone(live_tasks)
    /\ pc' = "stats"
    /\ UNCHANGED <<account_data, main_tasks, last_stats>>
    /\ UNCHANGED <<session, call, session_id, base_url, batch_ops>>

NextRecon == MainFetched \/ RecordsFetched \/ ExecuteStatsTasks

SpecRecon == InitRecon /\ [][NextRecon]_vars

----------------------------------------------------------------------------
(* Properties of the refresh cycle (Spec).                                  *)

BatchTasks(i) == TasksOf(Batches[i])

Started(tasks) == \E i \in 1..Len(tasks) : tasks[i].st # "created"

AllDone(tasks) == \A i \in 1..Len(tasks) : tasks[i].st = "done"

\* C1: the batches run in the order main, records, media, live: whenever an
\* operation of a batch has started (its task has left "created", which it
\* does before it sends its request or touches the entity map), every
\* operation of every earlier batch has completed.
C1_BatchOrder ==
    \A i \in 1..Len(Batches) : \A j \in 1..Len(Batches) :
        i < j /\ Started(BatchTasks(j)) => AllDone(BatchTasks(i))

\* A records operation is in flight after the two main operations completed.
C1_Witness ==
    /\ pc = "records"
    /\ "waiting" \in StatesOf(record_tasks)
    /\ Len(main_tasks) >= 2
    /\ AllDone(main_tasks)

C3_ReconcilerAfterBatches ==
    pc = "stats" \/ last_stats.ran =>
        \A i \in 1..Len(Batches) : AllDone(BatchTasks(i))

\* The reconciler has run in a cycle that had live and media operations.
C3_Witness ==
    /\ last_stats.ran
    /\ live_tasks # <<>>
    /\ media_tasks # <<>>
    /\ Len(main_tasks) >= 2

UnknownDevices ==
    LET devices == collect_devices(account_data)
    IN  {devices[i] : i \in {k \in 1..Len(devices) : devices[k].device_type \notin ALL_DEVICES}}

KnownDevices ==
    LET known(device) == device.device_type \in ALL_DEVICES
    IN  SelectSeq(collect_devices(account_data), known)

\* The operations of a batch, whatever their progress.
Ops(tasks) ==
    [i \in 1..Len(tasks) |-> [tasks[i] EXCEPT !.st = "created", !.stored = FALSE]]

\* C6: a device of no known family has no operation in any batch and no
\* entry in the entity map, and once the cycle is planned the four batches
\* are those planned for the list without such devices.
C6_UnknownTypeIgnored ==
    /\ \A device \in UnknownDevices :
          /\ \A i \in 1..Len(AllTasks) : AllTasks[i].device # device
          /\ ~Present(petkit_entities, device.device_id)
    /\ pc \in BatchNames \cup {"stats", "done"} =>
          LET t == prepare_tasks(KnownDevices) IN
          /\ Ops(main_tasks) = t.main_tasks
          /\ Ops(record_tasks) = t.record_tasks
          /\ Ops(media_tasks) = t.media_tasks
          /\ Ops(live_tasks) = t.live_tasks

\* A cycle of an account with a known and an unknown device has returned.
C6_Witness ==
    /\ pc = "done"
    /\ UnknownDevices # {}
    /\ main_tasks # <<>>

----------------------------------------------------------------------------
(* Properties of the planner (SpecPlan).                                    *)

DeviceList == collect_devices(account_data)

DevicesOfType(types) ==
    {DeviceList[i] : i \in {k \in 1..Len(DeviceList) : DeviceList[k].device_type \in types}}

\* How many operations of `tasks` fetch `data_class` for `device`, and how
\* many operations it has for `device` in all.
CountOps(tasks, device, data_class) ==
    Cardinality({i \in 1..Len(tasks) :
                    tasks[i].device = device /\ tasks[i].data_class = data_class})

CountDevice(tasks, device) ==
    Cardinality({i \in 1..Len(tasks) : tasks[i].device = device})

Bit(b) == IF b THEN 1 ELSE 0

\* The operations of a batch follow the device list (the i-th device of a
\* list has id i).
InListOrder(tasks) ==
    /\ \A i \in 1..Len(tasks) : \E k \in 1..Len(DeviceList) : tasks[i].device = DeviceList[k]
    /\ \A i \in 1..Len(tasks) : \A j \in 1..Len(tasks) :
          i < j => tasks[i].device.device_id <= tasks[j].device.device_id

\* C4: once the cycle is planned, main holds exactly one operation per
\* device of a known family; records holds exactly one records operation
\* per feeder, litter box and water fountain, none for a purifier, one more
\* (stats) per litter box without camera and one more (pet-out-graph) per
\* litter box with camera, and nothing else; both follow the device list.
C4_PlannerCounts ==
    pc = "main" =>
        /\ \A i \in 1..Len(DeviceList) :
              LET device == DeviceList[i]
                  type == device.device_type
              IN  /\ CountDevice(main_tasks, device) = Bit(type \in ALL_DEVICES)
                  /\ CountOps(main_tasks, device, "Feeder") = Bit(type \in DEVICES_FEEDER)
                  /\ CountOps(main_tasks, device, "Litter") = Bit(type \in DEVICES_LITTER_BOX)
                  /\ CountOps(main_tasks, device, "WaterFountain")
                        = Bit(type \in DEVICES_WATER_FOUNTAIN)
                  /\ CountOps(main_tasks, device, "Purifier") = Bit(type \in DEVICES_PURIFIER)
                  /\ CountOps(record_tasks, device, "FeederRecord") = Bit(type \in DEVICES_FEEDER)
                  /\ CountOps(record_tasks, device, "LitterRecord")
                        = Bit(type \in DEVICES_LITTER_BOX)
                  /\ CountOps(record_tasks, device, "WaterFountainRecord")
                        = Bit(type \in DEVICES_WATER_FOUNTAIN)
                  /\ CountOps(record_tasks, device, "LitterStats")
                        = Bit(type \in LITTER_NO_CAMERA)
                  /\ CountOps(record_tasks, device, "PetOutGraph")
                        = Bit(type \in LITTER_WITH_CAMERA)
                  /\ CountDevice(record_tasks, device)
                        = Bit(type \in DEVICES_FEEDER \cup DEVICES_LITTER_BOX
                                       \cup DEVICES_WATER_FOUNTAIN)
                          + Bit(type \in LITTER_NO_CAMERA) + Bit(type \in LITTER_WITH_CAMERA)
        /\ InListOrder(main_tasks)
        /\ InListOrder(record_tasks)

\* The list of a camera litter box and a purifier is planned.
C4_Witness ==
    /\ pc = "main"
    /\ DevicesOfType(LITTER_WITH_CAMERA) # {}
    /\ DevicesOfType(DEVICES_PURIFIER) # {}
    /\ Len(main_tasks) = 2
    /\ Len(record_tasks) = 2

\* C5 as stated: every camera device has its media fetch in the media batch
\* and its LiveFeed fetch in the live batch, and neither batch holds a
\* fetch of the other kind.
C5_CameraBatches ==
    pc = "main" =>
        /\ \A device \in DevicesOfType(LITTER_WITH_CAMERA \cup FEEDER_WITH_CAMERA) :
              /\ CountOps(media_tasks, device, "Media") = 1
              /\ CountOps(live_tasks, device, "LiveFeed") = 1
        /\ \A i \in 1..Len(media_tasks) : media_tasks[i].data_class = "Media"
        /\ \A i \in 1..Len(live_tasks) : live_tasks[i].data_class = "LiveFeed"

\* The planner has placed the LiveFeed fetch of a camera litter box in the
\* media batch and its media fetch in the live batch.
C5_Swapped ==
    /\ pc = "main"
    /\ \E device \in DevicesOfType(LITTER_WITH_CAMERA) :
          /\ CountOps(media_tasks, device, "LiveFeed") = 1
          /\ CountOps(live_tasks, device, "Media") = 1

----------------------------------------------------------------------------
(* Properties of the reconciler (SpecRecon).                                *)

LittersOfType(types) ==
    {k \in DeviceIds : /\ petkit_entities[k].kind = "Litter"
                       /\ NotNone(petkit_entities[k].device_nfo)
                       /\ Val(petkit_entities[k].device_nfo).device_type \in types}

DeviceRecords(k) == RecordList(petkit_entities[k].device_records)

PetGraph(k) == RecordList(petkit_entities[k].device_pet_graph_out)

SetMax(S) == CHOOSE x \in S : \A y \in S : y <= x

\* The reconciler has run in this cycle and has not raised.
Reconciled == last_stats.ran /\ ~last_stats.err

\* A pet's last_litter_usage when the reconciler started; init_pet_stats
\* makes it 0 when it was None.
UsageBefore(p) ==
    IF IsNone(last_stats.before[p].last_litter_usage) THEN 0
    ELSE Val(last_stats.before[p].last_litter_usage)

\* The timestamps of the records of pet p in the camera-less litter boxes.
NoCameraTimestamps(p) ==
    UNION {{Val(DeviceRecords(k)[i].timestamp) :
               i \in {j \in 1..Len(DeviceRecords(k)) :
                         /\ DeviceRecords(k)[j].pet_id = Some(p)
                         /\ NotNone(DeviceRecords(k)[j].timestamp)}} :
           k \in LittersOfType(LITTER_NO_CAMERA)}

\* C7: the camera-less reconciler does not depend on the order of the
\* records: after a run in which only camera-less litter boxes had events,
\* the pet's last_litter_usage is the largest of its previous value and the
\* timestamps of the pet's records, wherever they stand in device_records
\* and whatever earlier cycles delivered.
C7_NoCameraOrderIndependent ==
    /\ Reconciled
    /\ LittersOfType(LITTER_NO_CAMERA) # {}
    /\ \A k \in LittersOfType(LITTER_WITH_CAMERA) : PetGraph(k) = <<>>
    =>
        \A p \in PetIds :
            petkit_entities[p].last_litter_usage
                = Some(SetMax({UsageBefore(p)} \cup NoCameraTimestamps(p)))

\* device_records held a record of the pet at T2 followed by one at T1 < T2,
\* both newer than the pet's previous usage; the usage ended at T2.
C7_Witness ==
    /\ Reconciled
    /\ \E k \in LittersOfType(LITTER_NO_CAMERA) : \E p \in PetIds :
       \E i \in 1..Len(DeviceRecords(k)) : \E j \in 1..Len(DeviceRecords(k)) :
          LET first == DeviceRecords(k)[i]
              second == DeviceRecords(k)[j]
          IN  /\ i < j
              /\ first.pet_id = Some(p) /\ second.pet_id = Some(p)
              /\ NotNone(first.timestamp) /\ NotNone(second.timestamp)
              /\ UsageBefore(p) < Val(second.timestamp)
              /\ Val(second.timestamp) < Val(first.timestamp)
              /\ petkit_entities[p].last_litter_usage = first.timestamp

\* C8 as stated: once set, a pet's last_litter_usage never decreases: after
\* a run of the reconciler it is at least what it was when the run started.
C8_UsageNeverDecreases ==
    last_stats.ran =>
        \A p \in PetIds :
            NotNone(last_stats.before[p].last_litter_usage) =>
                /\ NotNone(petkit_entities[p].last_litter_usage)
                /\ Val(petkit_entities[p].last_litter_usage)
                      >= Val(last_stats.before[p].last_litter_usage)

\* The steps of the two loops that compare a timestamp, on the pet as it is:
\* a record or entry of the pet whose timestamp equals the pet's
\* last_litter_usage leaves the pet as it is.
EqualTimestampKept ==
    \A p \in PetIds :
        LET pet == petkit_entities[p]
            from == [pet |-> pet, err |-> FALSE]
        IN  /\ \A k \in LittersOfType(LITTER_NO_CAMERA) :
               \A i \in 1..Len(DeviceRecords(k)) :
                  LET stat == DeviceRecords(k)[i] IN
                  stat.pet_id = Some(p) /\ stat.timestamp = pet.last_litter_usage
                     /\ NotNone(stat.timestamp)
                  => no_camera_record(from, petkit_entities[k], stat) = from
            /\ \A k \in LittersOfType(LITTER_WITH_CAMERA) :
               \A i \in 1..Len(PetGraph(k)) :
                  LET value == PetGraph(k)[i] IN
                  value.pet_id = Some(p) /\ value.time = pet.last_litter_usage
                     /\ NotNone(value.time)
                  => camera_graph_entry(from, petkit_entities[k], value) = from

\* A second run of the reconciler on the same litter data leaves every pet
\* as the first run left it.
RerunKeepsPets ==
    Reconciled =>
        PetsOf(execute_stats_tasks(petkit_entities, entity_order).ents)
            = PetsOf(petkit_entities)

\* C9 as stated: the newer-than comparisons are strict, so that an equal
\* timestamp overwrites nothing, and a second run on unchanged litter data
\* leaves every pet field as after the first run.
C9_StrictAndIdempotent == EqualTimestampKept /\ RerunKeepsPets

HealthFields(pet) ==
    <<pet.yowling_detected, pet.abnormal_ph_detected, pet.measured_ph,
      pet.soft_stool_detected, pet.last_urination, pet.last_defecation>>

\* The records of litter box k that the second loop correlates with pet p:
\* same pet id, event id equal to the pet's last_event_id.
Correlated(k, p) ==
    {i \in 1..Len(DeviceRecords(k)) :
        /\ DeviceRecords(k)[i].pet_id = Some(p)
        /\ DeviceRecords(k)[i].event_id = petkit_entities[p].last_event_id}

PhState(k, i) ==
    LET sc == SubContent0(DeviceRecords(k)[i])
    IN  IF NotNone(sc) THEN Val(sc).ph_state ELSE None

\* The pet as init_pet_stats of each litter box in turn makes it.
RECURSIVE InitOnly(_, _)
InitOnly(pet, litters) ==
    IF litters = <<>> THEN pet
    ELSE InitOnly(init_pet_stats(pet, petkit_entities[Head(litters)]), Tail(litters))

\* C10: after a run of the reconciler, for the pet's last_event_id E (the
\* event of the pet-out-graph entry last applied): if the camera litter
\* box's device_records holds a record of the pet with event id E whose
\* sub_content[0].content.ph_state is 1 (and none with another ph_state),
\* abnormal_ph_detected is 1; if it holds no record of the pet with event id
\* E, the pet's health fields are those it had when the run started, or
\* their initial values.
C10_CameraCorrelation ==
    Reconciled =>
        \A p \in PetIds : \A k \in LittersOfType({T5, T6}) :
            /\ (/\ \E i \in Correlated(k, p) : PhState(k, i) = Some(1)
                /\ \A i \in Correlated(k, p) : PhState(k, i) \in {None, Some(1)})
               => petkit_entities[p].abnormal_ph_detected = Some(1)
            /\ Correlated(k, p) = {}
               => HealthFields(petkit_entities[p])
                     = HealthFields(InitOnly(last_stats.before[p],
                                    KeysOfKind(petkit_entities, entity_order, "Litter")))

\* A pet-out-graph entry was applied in this run (the pet's last_event_id
\* changed), a record with that event id and ph_state 1 stood next to a
\* record of another event, and abnormal_ph_detected went from 0 to 1.
C10_Witness ==
    /\ Reconciled
    /\ \E p \in PetIds : \E k \in LittersOfType({T5, T6}) :
          /\ petkit_entities[p].last_event_id # last_stats.before[p].last_event_id
          /\ \E i \in Correlated(k, p) : PhState(k, i) = Some(1)
          /\ last_stats.before[p].abnormal_ph_detected = Some(0)
          /\ petkit_entities[p].abnormal_ph_detected = Some(1)

\* The times of the pet-out-graph entries of pet p in the camera litter
\* boxes.
CameraTimes(p) ==
    UNION {{Val(PetGraph(k)[i].time) :
               i \in {j \in 1..Len(PetGraph(k)) :
                         /\ PetGraph(k)[j].pet_id = Some(p)
                         /\ NotNone(PetGraph(k)[j].time)}} :
           k \in LittersOfType(LITTER_WITH_CAMERA)}

\* The capitalized name of the litter box stored under key k.
LitterName(k) == Capitalize(Val(Val(petkit_entities[k].device_nfo).device_name))

\* C11 as stated: after a cycle in which a camera-less and a camera litter
\* box each produced events of the pet newer than its previous usage, the
\* pet's last_device_used is the name of the litter box whose event has the
\* newer timestamp, whatever the order of the litter entities in the map.
C11_NewerDeviceWins ==
    Reconciled =>
        \A p \in PetIds :
        \A n \in LittersOfType(LITTER_NO_CAMERA) : \A c \in LittersOfType({T5, T6}) :
            NoCameraTimestamps(p) # {} /\ CameraTimes(p) # {} =>
                LET a == SetMax(NoCameraTimestamps(p))
                    b == SetMax(CameraTimes(p))
                IN  /\ a > b /\ a > UsageBefore(p)
                       => petkit_entities[p].last_device_used = Some(LitterName(n))
                    /\ b > a /\ b > UsageBefore(p)
                       => petkit_entities[p].last_device_used = Some(LitterName(c))

\* C12 as stated: after a completed cycle whose map holds a litter entity
\* (of any litter box type the planner accepts), every pet has
\* last_litter_usage, last_device_used, last_duration_usage and
\* last_measured_weight defined.
C12_PetsInitialised ==
    pc = "done" /\ last_stats.ran /\ LittersOfType(DEVICES_LITTER_BOX) # {} =>
        \A p \in PetIds :
            /\ NotNone(petkit_entities[p].last_litter_usage)
            /\ NotNone(petkit_entities[p].last_device_used)
            /\ NotNone(petkit_entities[p].last_duration_usage)
            /\ NotNone(petkit_entities[p].last_measured_weight)

\* The same for the litter box types populate_pet_stats handles.
C12_HandledTypesInitialised ==
    pc = "done" /\ last_stats.ran /\ LittersOfType({T3, T4, T5, T6}) # {} =>
        \A p \in PetIds :
            /\ NotNone(petkit_entities[p].last_litter_usage)
            /\ NotNone(petkit_entities[p].last_device_used)
            /\ NotNone(petkit_entities[p].last_duration_usage)
            /\ NotNone(petkit_entities[p].last_measured_weight)

----------------------------------------------------------------------------
(* SpecSeed: init_pet_stats alone, on a pet whose health fields hold any    *)
(* mix of unset and set values (a record of the second loop of             *)
(* _process_litter_camera can set them one by one) and on a litter box     *)
(* with any settings.                                                      *)

SeedValues == {None, Some(0), Some(1)}

PhValues == {None, Some(Frac(70, 1)), Some(Frac(65, 1))}

SeedSettings ==
    {None} \cup {Some([voice |-> v, ph_detection |-> d]) : v \in SeedValues, d \in SeedValues}

\* A pet before any cycle, and one whose usage fields a cycle has set.
SeedBases(p) ==
    LET fresh == [NewPet(p) EXCEPT !.device_nfo = Some(PetDevice(p))]
    IN  {fresh, [fresh EXCEPT !.last_litter_usage = Some(1),
                              !.last_device_used = Some("Alpha"),
                              !.last_duration_usage = Some(1),
                              !.last_measured_weight = Some(1)]}

SeedPets(p) ==
    {[base EXCEPT !.yowling_detected = y, !.abnormal_ph_detected = a,
                  !.measured_ph = m, !.soft_stool_detected = s,
                  !.last_urination = u, !.last_defecation = d] :
        base \in SeedBases(p), y \in SeedValues, a \in SeedValues, m \in PhValues,
        s \in SeedValues, u \in {None, Some(0)}, d \in {None, Some(0)}}

SeedAccount == Account(<<T4>>)

SeedLitter(settings) ==
    [NewEntity("Litter", settings) EXCEPT
        !.device_nfo = Some(SeedAccount.device_list[1]),
        !.device_records = ListData(<<>>), !.device_stats = ObjData([total_time |-> 0])]

InitSeed ==
    /\ account_data = <<SeedAccount>>
    /\ \E settings \in SeedSettings : \E pets \in [PetIds -> UNION {SeedPets(p) : p \in PetIds}] :
          /\ \A p \in PetIds : pets[p].pet_id = p
          /\ petkit_entities =
                [k \in Keys |-> IF k \in PetIds THEN pets[k]
                                ELSE IF k = SeedAccount.device_list[1].device_id
                                THEN SeedLitter(settings)
                                ELSE Absent]
    /\ entity_order = Append(AppendAll(<<>>, PetIds), SeedAccount.device_list[1].device_id)
    /\ main_tasks = MarkDone(prepare_tasks(SeedAccount.device_list).main_tasks)
    /\ record_tasks = MarkDone(prepare_tasks(SeedAccount.device_list).record_tasks)
    /\ media_tasks = <<>>
    /\ live_tasks = <<>>
    /\ pc = "stats"
    /\ last_stats = NoStats
    /\ session = "none"
    /\ session_id = 0 /\ base_url = PASSPORT_PETKIT /\ batch_ops = <<>>
    /\ call = NoCall

\* populate_pet_stats calls init_pet_stats(pet, litter_data).
InitPetStats ==
    /\ pc = "stats"
    /\ \E p \in PetIds : \E k \in DeviceIds :
          /\ petkit_entities[k].kind = "Litter"
          /\ petkit_entities' =
                [petkit_entities EXCEPT ![p] = init_pet_stats(@, petkit_entities[k])]
    /\ last_stats' = [ran |-> TRUE, err |-> FALSE, before |-> PetsOf(petkit_entities)]
    /\ UNCHANGED <<account_data, entity_order, main_tasks, record_tasks, media_tasks,
                   live_tasks, pc>>
    /\ UNCHANGED <<session, call, session_id, base_url, batch_ops>>

NextSeed == InitPetStats

SpecSeed == InitSeed /\ [][NextSeed]_vars

PhQuintet(pet) ==
    <<pet.abnormal_ph_detected, pet.measured_ph, pet.soft_stool_detected,
      pet.last_urination, pet.last_defecation>>

\* C13: after init_pet_stats, yowling_detected is 0 if it was unset and the
\* litter box's settings have voice = 1, and else what it was; the five pH
\* fields are 0, 7, 0, 0, 0 if all five were unset and the settings have
\* ph_detection = 1, and else what they were; a second call changes nothing.
C13_InitSeedsOnce ==
    last_stats.ran =>
        \A p \in PetIds : \A k \in LittersOfType(DEVICES_LITTER_BOX) :
            LET was == last_stats.before[p]
                pet == petkit_entities[p]
                settings == petkit_entities[k].settings
                voice == NotNone(settings) /\ Val(settings).voice = Some(1)
                ph_detection == NotNone(settings) /\ Val(settings).ph_detection = Some(1)
            IN  /\ pet.yowling_detected =
                      IF IsNone(was.yowling_detected) /\ voice THEN Some(0)
                      ELSE was.yowling_detected
                /\ PhQuintet(pet) =
                      IF PhQuintet(was) = <<None, None, None, None, None>> /\ ph_detection
                      THEN <<Some(0), Some(Frac(70, 1)), Some(0), Some(0), Some(0)>>
                      ELSE PhQuintet(was)
                /\ init_pet_stats(pet, petkit_entities[k]) = pet

\* init_pet_stats has seeded yowling_detected and the five pH fields.
C13_Witness ==
    /\ last_stats.ran
    /\ \E p \in PetIds :
          /\ IsNone(last_stats.before[p].yowling_detected)
          /\ PhQuintet(last_stats.before[p]) = <<None, None, None, None, None>>
          /\ petkit_entities[p].yowling_detected = Some(0)
          /\ petkit_entities[p].measured_ph = Some(Frac(70, 1))

----------------------------------------------------------------------------
(* The entity map across cycles (Spec) *)

PresentKeys(ents) == {k \in Keys : Present(ents, k)}

\* C14: a pet seeded at account-data fetch time stays in the map under its
\* pet id as a Pet, and no step other than the reconciler changes it: the
\* pet the reconciler of cycle n+1 starts from is the pet cycle n ended with.
C14_PetsPersist ==
    [][\A p \in PetIds :
          IsPet(petkit_entities[p])
          => /\ IsPet(petkit_entities'[p])
             /\ pc # "stats" => petkit_entities'[p] = petkit_entities[p]]_vars

\* A later cycle is fetching while the pet carries what an earlier
\* reconciler run derived.
C14_Witness ==
    /\ pc \in BatchNames
    /\ ~last_stats.ran
    /\ "done" \in StatesOf(main_tasks)
    /\ \E p \in PetIds : /\ IsPet(petkit_entities[p])
                         /\ NotNone(petkit_entities[p].last_litter_usage)

\* C15: a key that is present in petkit_entities is present in every later
\* state, over cycles and failures.
C15_KeysOnlyGrow ==
    [][PresentKeys(petkit_entities) \subseteq PresentKeys(petkit_entities')]_vars

\* A cycle has raised and the map still holds the pet and two devices.
C15_Witness ==
    /\ pc = "raised"
    /\ "failed" \in StatesOf(AllTasks)
    /\ Cardinality(PresentKeys(petkit_entities)) >= 3

HasMetadata(e, k) ==
    /\ "device_nfo" \in DOMAIN e
    /\ NotNone(e.device_nfo)
    /\ Val(e.device_nfo).device_id = k

\* C16: every entity stored under key k carries device metadata whose
\* device_id is k.
C16_MetadataMatchesKey ==
    \A k \in Keys : Present(petkit_entities, k) => HasMetadata(petkit_entities[k], k)

\* The main answer was a list: the entry is the list, without metadata.
C16_ListStored ==
    \E k \in DeviceIds : petkit_entities[k] = ListEntity

----------------------------------------------------------------------------
(* The sub-category handlers, on every map Spec reaches.  Each handler is   *)
(* applied to the map for every device of the account, and for the device  *)
(* metadata of every pet, with every payload of its category.              *)

AccountDevices == {DeviceList[i] : i \in 1..Len(DeviceList)}
DispatchDevices == AccountDevices \cup {PetDevice(p) : p \in PetIds}

RecordsPayloads ==
    CycleData("FeederRecord") \cup CycleData("LitterRecord") \cup CycleData("WaterFountainRecord")
StatsPayloads == CycleData("LitterStats") \cup CycleData("PetOutGraph")

IsSet(slot) == slot.shape # "none"

\* The record f is the record e but for the fields in slots.
OnlySlotsChanged(e, f, slots) ==
    /\ DOMAIN e = DOMAIN f
    /\ \A x \in DOMAIN e \ slots : e[x] = f[x]

\* The indices of the tasks of `tasks` that are done, of the data classes `types`.
DoneTasks(tasks, types) ==
    {i \in 1..Len(tasks) : tasks[i].st = "done" /\ tasks[i].data_class \in types}

\* C17: a stats payload is stored only on a Litter, in device_stats for a
\* camera-less type and in device_pet_graph_out for a camera type, never in
\* both; otherwise it is dropped and the map is unchanged.  No Litter of the
\* map has both slots set.
C17_StatsRouting ==
    /\ \A k \in DeviceIds :
          IsLitter(petkit_entities[k])
          => ~(IsSet(petkit_entities[k].device_stats)
               /\ IsSet(petkit_entities[k].device_pet_graph_out))
    /\ \A device \in DispatchDevices, data \in StatsPayloads :
          LET entity == petkit_entities[device.device_id]
              r == handle_device_stats(petkit_entities, entity_order, device, data)
              stored == IF device.device_type \in LITTER_NO_CAMERA
                        THEN [entity EXCEPT !.device_stats = data]
                        ELSE IF device.device_type \in LITTER_WITH_CAMERA
                        THEN [entity EXCEPT !.device_pet_graph_out = data]
                        ELSE entity
          IN  /\ ~r.raised
              /\ r.order = entity_order
              /\ r.ents = IF IsLitter(entity)
                          THEN [petkit_entities EXCEPT ![device.device_id] = stored]
                          ELSE petkit_entities

\* The stats tasks of a camera-less and of a camera litter box are done:
\* each Litter holds its payload in its own slot.
C17_Witness ==
    \E i \in DoneTasks(record_tasks, {"LitterStats"}),
       j \in DoneTasks(record_tasks, {"PetOutGraph"}) :
        LET a == petkit_entities[record_tasks[i].device.device_id]
            b == petkit_entities[record_tasks[j].device.device_id]
        IN  /\ IsLitter(a) /\ IsSet(a.device_stats) /\ ~IsSet(a.device_pet_graph_out)
            /\ IsLitter(b) /\ IsSet(b.device_pet_graph_out) /\ ~IsSet(b.device_stats)

\* C18: dispatching the same stats payload for the same device twice leaves
\* the map as dispatching it once.
C18_StatsReplay ==
    \A device \in DispatchDevices, data \in StatsPayloads :
        LET once == handle_device_stats(petkit_entities, entity_order, device, data)
            twice == handle_device_stats(once.ents, once.order, device, data)
        IN  twice = once

\* A stats task has stored its list payload on a Litter: dispatching the
\* payload again leaves the map as it is.
C18_Witness ==
    \E i \in DoneTasks(record_tasks, {"PetOutGraph"}) :
        LET device == record_tasks[i].device
            entity == petkit_entities[device.device_id]
        IN  /\ IsLitter(entity)
            /\ entity.device_pet_graph_out \in CycleData("PetOutGraph")
            /\ entity.device_pet_graph_out.items # <<>>
            /\ handle_device_stats(petkit_entities, entity_order, device,
                                   entity.device_pet_graph_out).ents = petkit_entities

\* C19: a records payload sets device_records when the entity under the
\* device id is a Feeder, a Litter or a WaterFountain; when there is no
\* entity or it is of another kind the payload is dropped, nothing is raised
\* and the map is unchanged.
C19_RecordsGuard ==
    \A device \in DispatchDevices, data \in RecordsPayloads :
        LET entity == petkit_entities[device.device_id]
            r == handle_device_records(petkit_entities, entity_order, device, data)
        IN  /\ ~r.raised
            /\ r.order = entity_order
            /\ r.ents = IF entity.kind \in {"Feeder", "Litter", "WaterFountain"}
                        THEN [petkit_entities EXCEPT ![device.device_id].device_records = data]
                        ELSE petkit_entities

\* The records batch is over: a water fountain holds its records, the
\* purifier and the pet hold none.
C19_Witness ==
    /\ pc = "media"
    /\ \E i \in DoneTasks(record_tasks, {"WaterFountainRecord"}) :
          LET entity == petkit_entities[record_tasks[i].device.device_id]
          IN  entity.kind = "WaterFountain" /\ IsSet(entity.device_records)
    /\ \E k \in DeviceIds : /\ petkit_entities[k].kind = "Purifier"
                            /\ ~IsSet(petkit_entities[k].device_records)
    /\ \E p \in PetIds : IsPet(petkit_entities[p])

\* The result r of an operation on `device` has the keys of the map, in the
\* same order, and differs from the map at most in `slots` of the entity
\* under the device id.
FrameOf(r, device, slots) ==
    /\ PresentKeys(r.ents) = PresentKeys(petkit_entities)
    /\ r.order = entity_order
    /\ \A k \in Keys \ {device.device_id} : r.ents[k] = petkit_entities[k]
    /\ OnlySlotsChanged(petkit_entities[device.device_id], r.ents[device.device_id], slots)

\* C20: the records, stats, live and media operations create no map entry
\* and change at most their own slot of the entity under their device id;
\* in the records, media and live batches of a cycle the keys of the map
\* stay as they are.
C20_SubCategoryFrame ==
    /\ [](\A device \in AccountDevices :
            /\ \A data \in RecordsPayloads :
                  FrameOf(handle_device_records(petkit_entities, entity_order, device, data),
                          device, {"device_records"})
            /\ \A data \in StatsPayloads :
                  FrameOf(handle_device_stats(petkit_entities, entity_order, device, data),
                          device, {"device_stats", "device_pet_graph_out"})
            /\ \A data \in CycleData("LiveFeed") :
                  FrameOf(handle_live_data(petkit_entities, entity_order, device, data),
                          device, {"live_feed"})
            /\ \A data \in CycleData("Media") :
                  FrameOf(store_medias(petkit_entities, entity_order, device, data),
                          device, {"medias"}))
    /\ [][(pc \in {"records", "media", "live"})
           => PresentKeys(petkit_entities') = PresentKeys(petkit_entities)]_vars

\* The records task and the live task of a device without entry are done
\* (its main answer had an unexpected shape): the map still has no entry
\* for it.
C20_Witness ==
    \E i \in DoneTasks(AllTasks, {"LiveFeed"}), j \in DoneTasks(record_tasks, {"LitterRecord", "FeederRecord"}) :
        /\ AllTasks[i].device = record_tasks[j].device
        /\ ~Present(petkit_entities, AllTasks[i].device.device_id)

----------------------------------------------------------------------------
(* SpecFetch: one call of _fetch_device_data, _fetch_media or              *)
(* send_api_request at a time, step by step, for the one device of an      *)
(* account, with the transport's retries (PrepReq.request).                *)

\* stop_after_attempt(5)
MaxAttempts == 5

\* What an HTTP attempt can meet: an answer with a result, an answer with
\* an error code (1, 5, 122, another), an HTTP error status, or an error of
\* the transport.
Outcomes ==
    {"ok", "busy", "session_expired", "auth", "api_error", "bad_status",
     "connector_error", "os_error", "disconnected", "timeout"}

\* The exception raised inside the try block of request: by aiohttp's
\* session.request, or by _handle_response for an HTTP status or an error
\* code of the body.  "" when the attempt returns.
raised_in_try(outcome) ==
    IF outcome = "ok" THEN ""
    ELSE IF outcome = "busy" THEN "PetkitServerBusyError"
    ELSE IF outcome = "session_expired" THEN "PetkitSessionExpiredError"
    ELSE IF outcome = "auth" THEN "PetkitAuthenticationError"
    ELSE IF outcome = "api_error" THEN "PypetkitError"
    ELSE IF outcome = "bad_status" THEN "PetkitInvalidHTTPResponseCodeError"
    ELSE IF outcome = "connector_error" THEN "ClientConnectorError"
    ELSE IF outcome = "os_error" THEN "ClientOSError"
    ELSE IF outcome = "disconnected" THEN "ServerDisconnectedError"
    ELSE "TimeoutError"

\* The except clauses of request.
request_raises(outcome) ==
    IF raised_in_try(outcome) \in {"ClientConnectorError", "ClientOSError",
                                    "ServerDisconnectedError", "TimeoutError"}
    THEN "PetkitTimeoutError"
    ELSE raised_in_try(outcome)

\* The retry predicate of the decorator of request.
RetriedExceptions ==
    {"PetkitServerBusyError", "ClientConnectorError", "ClientOSError",
     "ServerDisconnectedError", "ClientResponseError", "TimeoutError"}

\* A faulty stop condition: the attempts are not counted.
stop_never(attempts) == FALSE

stop_after_attempt(attempts) == attempts >= MaxAttempts

\* Whether tenacity calls request again after an attempt that raised
\* `exception`, the attempts made so far included.
retries(exception, attempts) ==
    exception \in RetriedExceptions /\ ~stop_after_attempt(attempts)

\* A faulty _fetch_device_data: a missing endpoint does not end the call.
after_endpoint_goes_on(endpoint) == "session"

\* _fetch_device_data: `if endpoint is None: return`.
after_endpoint(endpoint) == IF endpoint = "none" THEN "returned" ELSE "session"

\* The decoded response of a request: a JSON object (with or without a
\* nested "list" field), a JSON list, or anything else.
ObjBody(obj) == [shape |-> "dict", list |-> None, items |-> <<obj>>]
WrappedBody(items) == [shape |-> "dict", list |-> Some(items), items |-> <<[list |-> items]>>]
ListBody(items) == [shape |-> "list", list |-> None, items |-> items]
OtherBody == [shape |-> "other", list |-> None, items |-> <<>>]

\* data_class(**item): the typed object of a JSON object.  An object that
\* holds nothing but a "list" field gives an object of the class with every
\* field at its default.
instantiate(data_class, item) ==
    IF "list" \in DOMAIN item
    THEN IF data_type(data_class) = "deviceData" THEN NewEntity(data_class, None)
         ELSE [empty |-> data_class]
    ELSE item

\* _fetch_device_data: the T6 workaround and the typed payload.  None when
\* the response is neither a list nor a dict.
normalize(response, data_class) ==
    LET unwrapped == IF response.shape = "dict" /\ NotNone(response.list)
                        /\ Val(response.list) # <<>>
                     THEN ListBody(Val(response.list))
                     ELSE response
    IN  IF unwrapped.shape = "list"
        THEN Some(ListData([i \in 1..Len(unwrapped.items) |->
                               instantiate(data_class, unwrapped.items[i])]))
        ELSE IF unwrapped.shape = "dict"
        THEN Some(ObjData(instantiate(data_class, unwrapped.items[1])))
        ELSE None

\* The bodies the server can answer for a data class.
Bodies(data_class) ==
    UNION {IF d.shape = "list"
           THEN {ListBody(d.items), WrappedBody(d.items)}
           ELSE {ObjBody(d.items[1])} : d \in CycleData(data_class)}
    \cup {WrappedBody(<<>>), OtherBody}

FetchTypes == {T6, D4SH}

FetchAccounts == {Account(<<t>>) : t \in FetchTypes}

\* The data classes _prepare_tasks fetches for a device.
DataClassesOf(device) ==
    LET t == prepare_tasks(<<device>>)
        all == t.main_tasks \o t.record_tasks \o t.media_tasks \o t.live_tasks
    IN  {all[i].data_class : i \in 1..Len(all)}

CallOver == call.at \in {"idle", "returned", "raised"}

InitFetch ==
    /\ account_data \in {<<a>> : a \in FetchAccounts}
    /\ petkit_entities = seed_pets(NoEntities, PetIds)
    /\ entity_order = AppendAll(<<>>, PetIds)
    /\ main_tasks = <<>>
    /\ record_tasks = <<>>
    /\ media_tasks = <<>>
    /\ live_tasks = <<>>
    /\ pc = "idle"
    /\ last_stats = NoStats
    /\ session = "none"
    /\ session_id = 0 /\ base_url = PASSPORT_PETKIT /\ batch_ops = <<>>
    /\ call = NoCall

FetchFrame ==
    UNCHANGED <<account_data, main_tasks, record_tasks, media_tasks, live_tasks,
                pc, last_stats, session_id, base_url, batch_ops>>

\* The session reaches its expiry date.
SessionExpires ==
    /\ session = "valid"
    /\ session' = "expired"
    /\ UNCHANGED <<petkit_entities, entity_order, call>>
    /\ FetchFrame

\* _fetch_device_data(device, data_class) is called.
FetchCalled ==
    /\ CallOver
    /\ \E device \in AccountDevices :
       \E data_class \in DataClassesOf(device) \ {"Media"} :
          call' = [NoCall EXCEPT !.op = "fetch", !.key = device.device_id,
                                 !.device = Some(device), !.data_class = data_class,
                                 !.at = "endpoint"]
    /\ UNCHANGED <<petkit_entities, entity_order, session>>
    /\ FetchFrame

\* data_class.get_endpoint(device_type)
EndpointResolved ==
    /\ call.at = "endpoint"
    /\ \E endpoint \in {"none", "found"} :
          call' = [call EXCEPT !.endpoint = endpoint, !.at = after_endpoint(endpoint)]
    /\ UNCHANGED <<petkit_entities, entity_order, session>>
    /\ FetchFrame

\* get_session_id: validate_session logs in when there is no session or it
\* has expired; login drops the session before its requests, which can
\* raise.
SessionValidated ==
    /\ call.at = "session"
    /\ \/ /\ session' = "valid"
          /\ call' = [call EXCEPT !.validated = TRUE, !.at = "request"]
       \/ /\ session # "valid"
          /\ session' = "none"
          /\ call' = [call EXCEPT !.validated = TRUE, !.at = "raised",
                                  !.error = "login"]
    /\ UNCHANGED <<petkit_entities, entity_order>>
    /\ FetchFrame

\* One HTTP attempt of PrepReq.request and what tenacity does with it.
Attempt ==
    /\ call.at = "request"
    /\ \E outcome \in Outcomes :
         LET outcomes == Append(call.outcomes, outcome)
             exception == request_raises(outcome)
         IN  call' =
               IF exception = ""
               THEN IF call.op = "command"
                    THEN [call EXCEPT !.outcomes = outcomes, !.at = "returned",
                                      !.value = Some(TRUE)]
                    ELSE [call EXCEPT !.outcomes = outcomes, !.at = "response"]
               ELSE IF retries(exception, Len(outcomes))
               THEN [call EXCEPT !.outcomes = outcomes]
               ELSE [call EXCEPT !.outcomes = outcomes, !.at = "raised",
                                 !.error = exception]
    /\ UNCHANGED <<petkit_entities, entity_order, session>>
    /\ FetchFrame

\* The rest of _fetch_device_data: the payload is built and dispatched.
ResponseHandled ==
    /\ call.at = "response"
    /\ \E response \in Bodies(call.data_class) :
         LET device_data == normalize(response, call.data_class)
             r == IF IsNone(device_data)
                  THEN Handled(petkit_entities, entity_order)
                  ELSE dispatch(petkit_entities, entity_order, Val(call.device),
                                call.data_class, Val(device_data))
         IN  /\ petkit_entities' = r.ents
             /\ entity_order' = r.order
             /\ call' = [call EXCEPT !.body = Some(response), !.payload = device_data,
                                     !.at = IF r.raised THEN "raised" ELSE "returned",
                                     !.error = IF r.raised THEN "AttributeError" ELSE ""]
    /\ UNCHANGED session
    /\ FetchFrame

\* _fetch_media(device), the cloud's answer included.
MediaFetched ==
    /\ CallOver
    /\ \E device \in {d \in AccountDevices : "Media" \in DataClassesOf(d)} :
       \E medias \in CycleData("Media") :
         LET r == store_medias(petkit_entities, entity_order, device, medias) IN
         /\ petkit_entities' = r.ents
         /\ entity_order' = r.order
         /\ call' = [NoCall EXCEPT !.op = "media", !.key = device.device_id,
                                   !.device = Some(device), !.data_class = "Media",
                                   !.at = IF r.raised THEN "raised" ELSE "returned",
                                   !.error = IF r.raised THEN "KeyError" ELSE ""]
    /\ UNCHANGED session
    /\ FetchFrame

\* What ACTIONS_MAP says of an action for the type of the device: the action
\* is not in the table, the type is not in its supported_device, or it is.
Actions == {"unknown", "unsupported", "supported"}

\* A faulty send_api_request: supported_device is not looked at.
command_check_any_type(ents, device_id, action) ==
    LET device == ents[device_id] IN
    IF device.kind \in {"absent", "list"} THEN "raised"
    ELSE IF IsNone(device.device_nfo) THEN "raised"
    ELSE IF action = "unknown" THEN "raised"
    ELSE "session"

\* send_api_request up to its request: "raised" (PypetkitError), "returned"
\* (False) or "session" (the request is prepared).  An empty list is falsy.
command_check(ents, device_id, action) ==
    LET device == ents[device_id] IN
    IF device.kind \in {"absent", "list"} THEN "raised"
    ELSE IF IsNone(device.device_nfo) THEN "raised"
    ELSE IF Val(device.device_nfo).device_type = "" THEN "raised"
    ELSE IF action = "unknown" THEN "raised"
    ELSE IF action = "unsupported" THEN "returned"
    ELSE "session"

\* send_api_request(device_id, action) is called.
CommandCalled ==
    /\ CallOver
    /\ \E device_id \in Keys, action \in Actions :
         LET at == command_check(petkit_entities, device_id, action) IN
         call' = [NoCall EXCEPT !.op = "command", !.key = device_id, !.action = action,
                                !.at = at,
                                !.error = IF at = "raised" THEN "PypetkitError" ELSE "",
                                !.value = IF at = "returned" THEN Some(FALSE) ELSE None]
    /\ UNCHANGED <<petkit_entities, entity_order, session>>
    /\ FetchFrame

NextFetch ==
    \/ CommandCalled
    \/ SessionExpires
    \/ FetchCalled
    \/ EndpointResolved
    \/ SessionValidated
    \/ Attempt
    \/ ResponseHandled
    \/ MediaFetched

SpecFetch == InitFetch /\ [][NextFetch]_vars

----------------------------------------------------------------------------
(* Properties of the fetch executor and of the transport (SpecFetch) *)

\* C21: when the data class has no endpoint for the device type, the call
\* returns without an HTTP attempt, without validating or changing the
\* session, without changing the entity map and without raising.
C21_NoEndpointSkips ==
    /\ [](call.op = "fetch" /\ call.endpoint = "none"
           => /\ call.at = "returned"
              /\ call.outcomes = <<>>
              /\ ~call.validated
              /\ call.error = "")
    /\ [][(call.at = "endpoint" /\ call'.endpoint = "none")
           => UNCHANGED <<petkit_entities, entity_order, session>>]_vars

\* A fetch has returned for want of an endpoint while the session had
\* expired.
C21_Witness ==
    /\ call.op = "fetch"
    /\ call.endpoint = "none"
    /\ call.at = "returned"
    /\ session = "expired"

\* The payload the statement of C22 gives for a decoded body.
ClaimedPayload(response) ==
    IF response.shape = "dict" /\ NotNone(response.list)
    THEN Some(ListData(Val(response.list)))
    ELSE IF response.shape = "list" THEN Some(ListData(response.items))
    ELSE IF response.shape = "dict" THEN Some(ObjData(response.items[1]))
    ELSE None

Normalized(response) ==
    /\ call.payload = ClaimedPayload(response)
    /\ response.shape = "other" => call.at = "returned" /\ call.error = ""

\* C22: an object with a nested list field gives one payload per element of
\* that list (none for an empty list), a bare list one payload per element,
\* a bare object one payload, and any other shape ends the call with no
\* dispatch and no exception.
C22_Normalization ==
    (call.op = "fetch" /\ NotNone(call.body)) => Normalized(Val(call.body))

\* The same but for an object whose nested list is empty.
C22_NonEmptyNormalized ==
    (call.op = "fetch" /\ NotNone(call.body) /\ Val(call.body) # WrappedBody(<<>>))
    => Normalized(Val(call.body))

\* The pet-out-graph answer of a T6 was an object with an empty list: one
\* object went to the handler and sits in device_pet_graph_out.
C22_EmptyListKept ==
    /\ call.op = "fetch"
    /\ call.data_class = "PetOutGraph"
    /\ call.body = Some(WrappedBody(<<>>))
    /\ call.at = "returned"
    /\ IsLitter(petkit_entities[call.key])
    /\ petkit_entities[call.key].device_pet_graph_out.shape = "dict"

\* A records, stats, live or media operation has run to its end (its
\* request answered) and the map has no entry for its device.
RanWithoutEntity(ops) ==
    /\ call.op \in ops
    /\ data_type(call.data_class) # "deviceData"
    /\ call.at \in {"returned", "raised"}
    /\ call.op = "fetch" => NotNone(call.body)
    /\ ~Present(petkit_entities, call.key)

\* C23: an operation of a later batch that finds no entity for its device
\* drops the mutation and raises nothing, the media operation as the
\* records, stats and live handlers.
C23_AbsentEntityDropped ==
    RanWithoutEntity({"fetch", "media"}) => call.at = "returned" /\ call.error = ""

\* The same for the records, stats and live handlers alone.
C23_HandlersDrop ==
    RanWithoutEntity({"fetch"}) => call.at = "returned" /\ call.error = ""

\* _fetch_media has raised KeyError: the map has no entry for its device.
C23_MediaRaises ==
    /\ RanWithoutEntity({"media"})
    /\ call.at = "raised"
    /\ call.error = "KeyError"

Attempts == Len(call.outcomes)
LastOutcome == call.outcomes[Attempts]

\* C24: a request that meets a transport error is attempted again, and the
\* timeout error reaches the caller only once the MaxAttempts attempts are
\* used up.
C24_TransportRetried ==
    (call.at = "raised" /\ call.error = "PetkitTimeoutError") => Attempts = MaxAttempts

\* The first attempt met a transport error and the call has raised.
C24_RaisedAtOnce ==
    /\ call.at = "raised"
    /\ call.error = "PetkitTimeoutError"
    /\ Attempts = 1

NonTransient == {"session_expired", "auth", "api_error", "bad_status"}

\* C25: a busy answer is retried while fewer than MaxAttempts attempts have
\* been made; the call makes at most MaxAttempts attempts, each retry being
\* one more attempt; it goes on with the first answer that carries a
\* result, raises PetkitServerBusyError after the last busy answer, and
\* raises a non-transient failure at the attempt that met it, without any
\* retry.
C25_BusyRetried ==
    /\ [](/\ Attempts <= MaxAttempts
          /\ \A i \in 1..(Attempts - 1) : call.outcomes[i] = "busy"
          /\ call.at = "request" => Attempts < MaxAttempts
          /\ (Attempts > 0 /\ LastOutcome = "busy")
             => IF Attempts < MaxAttempts THEN call.at = "request"
                ELSE call.at = "raised" /\ call.error = "PetkitServerBusyError"
          /\ (Attempts > 0 /\ LastOutcome \in NonTransient)
             => call.at = "raised" /\ call.error = request_raises(LastOutcome)
          /\ (Attempts > 0 /\ call.outcomes[1] \in NonTransient) => Attempts = 1
          /\ (Attempts > 0 /\ LastOutcome = "ok") => call.at # "request")
    /\ [][(call.at = "request" /\ call'.at = "request" /\ call' # call)
           => Len(call'.outcomes) = Attempts + 1]_vars

\* The server was busy MaxAttempts times: the call has raised.
C25_Witness ==
    /\ call.at = "raised"
    /\ call.error = "PetkitServerBusyError"
    /\ Attempts = MaxAttempts
    /\ \A i \in 1..Attempts : call.outcomes[i] = "busy"

----------------------------------------------------------------------------
(* The operations of one batch and the map entries they write (SpecPlan) *)

NoPetTouched ==
    \A i \in 1..Len(AllTasks) : AllTasks[i].device.device_id \notin PetIds

\* C26 as stated: no two operations of one batch have the same device id,
\* and no operation has the id of a pet.
C26_DistinctKeys ==
    /\ \A b \in BatchNames : \A i, j \in 1..Len(TasksOf(b)) :
          i # j => TasksOf(b)[i].device.device_id # TasksOf(b)[j].device.device_id
    /\ NoPetTouched

\* C26: no two operations of one batch write the same attribute of the
\* same entry (the records batch holds a records and a stats operation for
\* every litter box of type t3 to t7, which write two attributes of one
\* entry), and no operation has the id of a pet.
C26_DistinctSlots ==
    /\ \A b \in BatchNames : \A i, j \in 1..Len(TasksOf(b)) :
          i # j => \/ TasksOf(b)[i].device.device_id # TasksOf(b)[j].device.device_id
                   \/ WrittenSlot(TasksOf(b)[i]) # WrittenSlot(TasksOf(b)[j])
    /\ NoPetTouched

\* The records batch holds two operations for one litter box.
C26_Witness ==
    \E i, j \in 1..Len(record_tasks) :
        /\ record_tasks[i].device = record_tasks[j].device
        /\ record_tasks[i].data_class = "LitterRecord"
        /\ record_tasks[j].data_class \in {"LitterStats", "PetOutGraph"}

----------------------------------------------------------------------------
(* The reconciler on the records of one litter box (SpecVisit): the entity *)
(* map holds one pet and one litter box whose records were fetched, and    *)
(* _execute_stats_tasks runs once.                                         *)

VisitTypes == {T4, T6}

\* A pet before any cycle, and one whose fields an earlier cycle has set.
VisitPets(p) ==
    LET fresh == [NewPet(p) EXCEPT !.device_nfo = Some(PetDevice(p))]
    IN  {fresh, [fresh EXCEPT !.last_litter_usage = Some(1),
                              !.last_device_used = Some("Beta"),
                              !.last_duration_usage = Some(5),
                              !.last_measured_weight = Some(1),
                              !.last_event_id = Some(1),
                              !.yowling_detected = Some(0),
                              !.abnormal_ph_detected = Some(0),
                              !.measured_ph = Some(Frac(65, 1)),
                              !.soft_stool_detected = Some(0),
                              !.last_urination = Some(1),
                              !.last_defecation = Some(1)]}

\* LitterRecord.content of a camera-less litter box: missing, or with each
\* of time_in and time_out present or not.
VisitContents ==
    {None} \cup {Some(LRContent(Some(40), time_in, time_out, None)) :
                    time_in \in {None, Some(1)}, time_out \in {None, Some(3)}}

\* sub_content of a record of a camera litter box: missing, empty, or one
\* item whose content carries the three flags and the pH readings (missing,
\* empty, two readings, one reading).
VisitSubContents ==
    {None, Some(<<>>)}
    \cup {Some(<<Some(LRSubContent(Some(1), Some(soft_stools), Some(hard_stools),
                                   Some(urine_bolus), detection_info))>>) :
             soft_stools \in {0, 1}, hard_stools \in {0, 1}, urine_bolus \in {0, 1},
             detection_info \in {None, Some(<<>>), Some(<<68, 72>>), Some(<<65>>)}}

\* The records of pet 101 a litter box of the type can hold; those of a
\* camera litter box are taken at time 2 and belong to event 1, to event 2
\* or to none.
VisitRecords(type) ==
    IF type \in LITTER_NO_CAMERA
    THEN {LitterRecord(Some(101), Some(t), None, content, None) :
             t \in 1..MaxTime, content \in VisitContents}
    ELSE {LitterRecord(Some(101), Some(2), event_id, content, sub_content) :
             event_id \in {None, Some(1), Some(2)},
             content \in {None, Some(LRContent(None, None, None, Some(1)))},
             sub_content \in VisitSubContents}

\* device_pet_graph_out of a camera litter box: nothing, the entry of event
\* 2 at time 2, or that entry without its content.
VisitGraphs ==
    {<<>>, <<GraphEntry(2, Some([time |-> Some(2), pet_weight |-> Some(40)]))>>,
     <<GraphEntry(2, None)>>}

\* device_records and device_pet_graph_out after the records batch.
VisitAnswers(type) ==
    IF type \in LITTER_NO_CAMERA
    THEN {[records |-> r, graph |-> <<>>] : r \in SeqsUpTo(VisitRecords(type), MaxRecs)}
    ELSE {[records |-> r, graph |-> g] :
             r \in SeqsUpTo(VisitRecords(type), 1), g \in VisitGraphs}

VisitLitter(device, answer) ==
    [NewEntity("Litter", LitterSettings(device)) EXCEPT
        !.device_nfo = Some(device),
        !.device_records = ListData(answer.records),
        !.device_pet_graph_out = ListData(answer.graph)]

InitVisit ==
    /\ \E type \in VisitTypes : \E pet \in UNION {VisitPets(p) : p \in PetIds} :
       \E answer \in VisitAnswers(type) :
          LET device == Account(<<type>>).device_list[1] IN
          /\ account_data = <<Account(<<type>>)>>
          /\ petkit_entities =
                [k \in Keys |-> IF k = pet.pet_id THEN pet
                                ELSE IF k = device.device_id THEN VisitLitter(device, answer)
                                ELSE Absent]
          /\ entity_order = Append(AppendAll(<<>>, PetIds), device.device_id)
          /\ main_tasks = MarkDone(prepare_tasks(<<device>>).main_tasks)
          /\ record_tasks = MarkDone(prepare_tasks(<<device>>).record_tasks)
          /\ media_tasks = MarkDone(prepare_tasks(<<device>>).media_tasks)
          /\ live_tasks = MarkDone(prepare_tasks(<<device>>).live_tasks)
    /\ pc = "stats"
    /\ last_stats = NoStats
    /\ session = "none"
    /\ session_id = 0 /\ base_url = PASSPORT_PETKIT /\ batch_ops = <<>>
    /\ call = NoCall

NextVisit == ExecuteStatsTasks

SpecVisit == InitVisit /\ [][NextVisit]_vars

\* The record of pet p applied last by _process_litter_no_camera on litter
\* box k: the first one with the largest timestamp (0 when p has no record).
OwnRecords(k, p) ==
    {i \in 1..Len(DeviceRecords(k)) : /\ DeviceRecords(k)[i].pet_id = Some(p)
                                      /\ NotNone(DeviceRecords(k)[i].timestamp)}

NewestRecord(k, p) ==
    IF OwnRecords(k, p) = {} THEN 0
    ELSE LET top == SetMax({Val(DeviceRecords(k)[i].timestamp) : i \in OwnRecords(k, p)})
         IN  CHOOSE i \in OwnRecords(k, p) :
                /\ DeviceRecords(k)[i].timestamp = Some(top)
                /\ \A j \in OwnRecords(k, p) :
                      DeviceRecords(k)[j].timestamp = Some(top) => i <= j

\* time_out - time_in of a record's content, 0 when a bound is absent.
UsageDuration(record) ==
    IF /\ NotNone(record.content)
       /\ NotNone(Val(record.content).time_in)
       /\ NotNone(Val(record.content).time_out)
    THEN Val(Val(record.content).time_out) - Val(Val(record.content).time_in)
    ELSE 0

\* C27: after a run of the reconciler on a camera-less litter box, when the
\* newest record R of the pet is newer than the pet's last_litter_usage was,
\* last_litter_usage is R's timestamp, last_device_used is the capitalized
\* device name, and last_duration_usage is time_out - time_in of R's
\* content, or 0 whenever either bound is absent.
C27_NoCameraUsage ==
    Reconciled =>
        \A p \in PetIds : \A k \in LittersOfType(LITTER_NO_CAMERA) :
            LET i == NewestRecord(k, p)
                pet == petkit_entities[p]
            IN  (i # 0 /\ Val(DeviceRecords(k)[i].timestamp) > UsageBefore(p)) =>
                   /\ pet.last_litter_usage = DeviceRecords(k)[i].timestamp
                   /\ pet.last_device_used =
                         Some(Capitalize(Val(Val(petkit_entities[k].device_nfo).device_name)))
                   /\ pet.last_duration_usage = Some(UsageDuration(DeviceRecords(k)[i]))

\* The same for the records that carry a content: there the duration is as
\* C27 states it.
C27_UsageWithContent ==
    Reconciled =>
        \A p \in PetIds : \A k \in LittersOfType(LITTER_NO_CAMERA) :
            LET i == NewestRecord(k, p)
                pet == petkit_entities[p]
            IN  (/\ i # 0
                 /\ Val(DeviceRecords(k)[i].timestamp) > UsageBefore(p)
                 /\ NotNone(DeviceRecords(k)[i].content)) =>
                   /\ pet.last_litter_usage = DeviceRecords(k)[i].timestamp
                   /\ pet.last_device_used =
                         Some(Capitalize(Val(Val(petkit_entities[k].device_nfo).device_name)))
                   /\ pet.last_duration_usage = Some(UsageDuration(DeviceRecords(k)[i]))

\* A newer record without content was applied: last_litter_usage is its
\* timestamp and last_duration_usage is still the 5 of the earlier visit.
C27_StaleDuration ==
    /\ Reconciled
    /\ \E p \in PetIds : \E k \in LittersOfType(LITTER_NO_CAMERA) :
          /\ Len(DeviceRecords(k)) = 1
          /\ NewestRecord(k, p) = 1
          /\ IsNone(DeviceRecords(k)[1].content)
          /\ Val(DeviceRecords(k)[1].timestamp) > UsageBefore(p)
          /\ petkit_entities[p].last_litter_usage = DeviceRecords(k)[1].timestamp
          /\ last_stats.before[p].last_duration_usage = Some(5)
          /\ petkit_entities[p].last_duration_usage = Some(5)

\* The record of a camera litter box the second loop applies to pet p, when
\* device_records holds exactly one and it belongs to the pet's last event.
OneCorrelated(k, p) == Len(DeviceRecords(k)) = 1 /\ Correlated(k, p) = {1}

\* A flag of sub_content[0].content of record i, None when there is none.
Flag(k, i, name) ==
    LET sc == SubContent0(DeviceRecords(k)[i])
    IN  IF NotNone(sc) THEN Val(sc)[name] ELSE None

\* C28: after the second pass of the camera reconciler over the record of
\* the pet's last event, last_urination is the record's timestamp when its
\* urine-bolus flag equals 1, last_defecation is the record's timestamp when
\* its hard-stool or its soft-stool flag equals 1, and a field whose flag is
\* not 1 keeps its previous value.
C28_ExcretionTimes ==
    Reconciled =>
        \A p \in PetIds : \A k \in LittersOfType(LITTER_WITH_CAMERA) :
            LET previous == InitOnly(last_stats.before[p], <<k>>)
                pet == petkit_entities[p]
            IN  OneCorrelated(k, p) =>
                   /\ pet.last_urination =
                         IF Flag(k, 1, "urine_bolus") = Some(1)
                         THEN DeviceRecords(k)[1].timestamp
                         ELSE previous.last_urination
                   /\ pet.last_defecation =
                         IF \/ Flag(k, 1, "hard_stools") = Some(1)
                            \/ Flag(k, 1, "soft_stools") = Some(1)
                         THEN DeviceRecords(k)[1].timestamp
                         ELSE previous.last_defecation

\* What the second pass does: the hard-stool flag alone decides on
\* last_defecation.
C28_HardStoolsOnly ==
    Reconciled =>
        \A p \in PetIds : \A k \in LittersOfType(LITTER_WITH_CAMERA) :
            LET previous == InitOnly(last_stats.before[p], <<k>>)
                pet == petkit_entities[p]
            IN  OneCorrelated(k, p) =>
                   /\ pet.last_urination =
                         IF Flag(k, 1, "urine_bolus") = Some(1)
                         THEN DeviceRecords(k)[1].timestamp
                         ELSE previous.last_urination
                   /\ pet.last_defecation =
                         IF Flag(k, 1, "hard_stools") = Some(1)
                         THEN DeviceRecords(k)[1].timestamp
                         ELSE previous.last_defecation

\* The record of the pet's last event has soft_stools = 1 and hard_stools = 0,
\* soft_stool_detected is 1, and last_defecation is what it was.
C28_SoftStoolIgnored ==
    /\ Reconciled
    /\ \E p \in PetIds : \E k \in LittersOfType(LITTER_WITH_CAMERA) :
          /\ OneCorrelated(k, p)
          /\ Flag(k, 1, "soft_stools") = Some(1)
          /\ Flag(k, 1, "hard_stools") = Some(0)
          /\ petkit_entities[p].soft_stool_detected = Some(1)
          /\ petkit_entities[p].last_defecation = last_stats.before[p].last_defecation
          /\ petkit_entities[p].last_defecation = Some(1)
          /\ DeviceRecords(k)[1].timestamp = Some(2)

\* The pH readings of sub_content[0].content.detection_info of record i,
\* <<>> when any part of the path is missing.
Readings(k, i) ==
    LET info == Flag(k, i, "detection_info")
    IN  IF NotNone(info) THEN Val(info) ELSE <<>>

\* C29: after the second pass of the camera reconciler over the record of
\* the pet's last event, measured_ph is the arithmetic mean of the pH
\* readings of sub_content[0].content.detection_info when there are any
\* (6.8 and 7.2 give 7.0), and None when there are none, whatever
\* measured_ph was before (seeded to 7 or set by an earlier cycle).
C29_MeasuredPh ==
    Reconciled =>
        \A p \in PetIds : \A k \in LittersOfType(LITTER_WITH_CAMERA) :
            LET pet == petkit_entities[p]
                readings == Readings(k, 1)
            IN  OneCorrelated(k, p) =>
                   /\ readings = <<>> => IsNone(pet.measured_ph)
                   /\ readings # <<>> =>
                         /\ NotNone(pet.measured_ph)
                         /\ Val(pet.measured_ph).num * Len(readings)
                               = SumSeq(readings) * Val(pet.measured_ph).den
                   /\ readings = <<68, 72>> => pet.measured_ph = Some(Frac(70, 1))

\* A pet whose measured_ph init_pet_stats has just seeded to 7 (or an
\* earlier cycle has set) meets a record without readings: measured_ph is
\* None.
C29_Witness ==
    /\ Reconciled
    /\ \E p \in PetIds : \E k \in LittersOfType(LITTER_WITH_CAMERA) :
          /\ OneCorrelated(k, p)
          /\ Readings(k, 1) = <<>>
          /\ NotNone(InitOnly(last_stats.before[p], <<k>>).measured_ph)
          /\ IsNone(petkit_entities[p].measured_ph)

----------------------------------------------------------------------------
(* Properties of send_api_request (SpecFetch) *)

\* The entity a command addresses is in the map and carries its device_nfo.
Addressable(k) ==
    /\ Present(petkit_entities, k)
    /\ petkit_entities[k].kind # "list"
    /\ NotNone(petkit_entities[k].device_nfo)

Command == call.op = "command"

\* The checks send_api_request makes before its request, as C30 states them.
CommandChecks ==
    /\ (Command /\ (~Addressable(call.key) \/ call.action = "unknown")) =>
          /\ call.at = "raised"
          /\ call.error = "PypetkitError"
          /\ call.outcomes = <<>> /\ ~call.validated
    /\ (Command /\ Addressable(call.key) /\ call.action = "unsupported") =>
          /\ call.at = "returned"
          /\ call.value = Some(FALSE)
          /\ call.outcomes = <<>> /\ ~call.validated

----------------------------------------------------------------------------
(* Snapshots across cycles (Spec) *)

SnapshotKinds == {"Feeder", "Litter", "WaterFountain"}

SubSlots == {"device_records", "device_stats", "device_pet_graph_out", "live_feed", "medias"}

\* The main operation of this cycle for device k has replaced the entry.
MainStored(tasks, k) ==
    \E i \in 1..Len(tasks) : tasks[i].device.device_id = k /\ tasks[i].stored

\* C31: after a completed cycle, the main payload of every feeder, litter
\* box and water fountain of the map was fetched during that cycle, as its
\* sub-category data were: no entity holds the main data of an earlier
\* cycle.
C31_ConsistentSnapshot ==
    pc = "done" =>
        \A k \in DeviceIds :
            petkit_entities[k].kind \in SnapshotKinds => MainStored(main_tasks, k)

\* The other half of C31: the step that stores the main payload leaves no
\* sub-category data of an earlier cycle in the entry.
C31_MainResetsSlots ==
    [][\A k \in DeviceIds :
          (~MainStored(main_tasks, k) /\ MainStored(main_tasks', k)) =>
              \A slot \in SubSlots : ~IsSet(petkit_entities'[k][slot])]_vars

\* A cycle has completed in which the main answer for a litter box was
\* neither a list nor an object: the entry of an earlier cycle is still
\* there, with the records the records operation of this cycle stored.
C31_StaleMain ==
    /\ pc = "done"
    /\ \E k \in DeviceIds :
          /\ petkit_entities[k].kind = "Litter"
          /\ ~MainStored(main_tasks, k)
          /\ \E i \in 1..Len(main_tasks) :
                main_tasks[i].device.device_id = k /\ main_tasks[i].st = "done"
          /\ \E i \in 1..Len(record_tasks) :
                /\ record_tasks[i].device.device_id = k
                /\ record_tasks[i].data_class = "LitterRecord"
                /\ record_tasks[i].st = "done"
          /\ IsSet(petkit_entities[k].device_records)

----------------------------------------------------------------------------
(* The account data across cycles (Spec) *)

CycleOver == pc \in {"idle", "done", "raised"}

FreshPet(p) == [NewPet(p) EXCEPT !.device_nfo = Some(PetDevice(p))]

\* C38: a cycle fetches the account data if and only if account_data is
\* empty when it starts; once account_data is not empty it never changes,
\* the operations of every cycle are those planned from its device list, no
\* pet of the map is made afresh and no key outside its devices and pets
\* enters the map.
C38_AccountFetchedOnce ==
    [][/\ (CycleOver /\ ~CycleOver') => (pc' = "account" <=> account_data = <<>>)
       /\ account_data # <<>> =>
             /\ account_data' = account_data
             /\ (pc # "main" /\ pc' = "main") =>
                   LET t == prepare_tasks(collect_devices(account_data)) IN
                   /\ main_tasks' = t.main_tasks
                   /\ record_tasks' = t.record_tasks
                   /\ media_tasks' = t.media_tasks
                   /\ live_tasks' = t.live_tasks
             /\ \A p \in PetIds :
                   /\ IsPet(petkit_entities[p]) <=> IsPet(petkit_entities'[p])
                   /\ (petkit_entities[p] # FreshPet(p)) => (petkit_entities'[p] # FreshPet(p))
             /\ PresentKeys(petkit_entities') \subseteq
                   PresentKeys(petkit_entities)
                   \cup {collect_devices(account_data)[i].device_id :
                            i \in 1..Len(collect_devices(account_data))}]_vars

\* A later cycle has planned its operations without a fetch of the account
\* data: the map holds a device and a pet with derived fields of an earlier
\* cycle.
C38_Witness ==
    /\ pc = "main"
    /\ main_tasks # <<>>
    /\ StatesOf(AllTasks) = {"created"}
    /\ \E k \in DeviceIds : Present(petkit_entities, k)
    /\ \E p \in PetIds : /\ IsPet(petkit_entities[p])
                         /\ petkit_entities[p] # FreshPet(p)

----------------------------------------------------------------------------
(* Properties of the usage fields and of the event correlation (SpecVisit) *)

UsageFields(pet) ==
    <<pet.last_litter_usage, pet.last_measured_weight, pet.last_duration_usage,
      pet.last_device_used>>

\* What one litter event of pet p on litter box k supplies: a record of a
\* camera-less box, a pet-out-graph entry of a camera box.
UsageEvents(k, p) ==
    LET name == Some(Capitalize(Val(Val(petkit_entities[k].device_nfo).device_name))) IN
    IF Val(petkit_entities[k].device_nfo).device_type \in LITTER_NO_CAMERA
    THEN {<<DeviceRecords(k)[i].timestamp,
            OptField(DeviceRecords(k)[i].content, "pet_weight"),
            Some(UsageDuration(DeviceRecords(k)[i])), name>> :
             i \in {j \in 1..Len(DeviceRecords(k)) : DeviceRecords(k)[j].pet_id = Some(p)}}
    ELSE {<<OptField(PetGraph(k)[i].content, "time"),
            OptField(PetGraph(k)[i].content, "pet_weight"),
            PetGraph(k)[i].toilet_time, name>> :
             i \in {j \in 1..Len(PetGraph(k)) : PetGraph(k)[j].pet_id = Some(p)}}

\* C34: after a run of the reconciler that updated a pet's usage fields,
\* last_litter_usage, last_measured_weight, last_duration_usage and
\* last_device_used are those of one litter event of the pet: the timestamp
\* of one event never stands next to the weight or duration of another.
C34_OneEvent ==
    Reconciled =>
        \A p \in PetIds : \A k \in LittersOfType(DEVICES_LITTER_BOX) :
            LET previous == InitOnly(last_stats.before[p], <<k>>)
                pet == petkit_entities[p]
            IN  UsageFields(pet) # UsageFields(previous) =>
                   UsageFields(pet) \in UsageEvents(k, p)

\* Every record and every pet-out-graph entry of litter box k has a content.
AllWithContent(k) ==
    /\ \A i \in 1..Len(DeviceRecords(k)) : NotNone(DeviceRecords(k)[i].content)
    /\ \A i \in 1..Len(PetGraph(k)) : NotNone(PetGraph(k)[i].content)

\* C34 holds of the litter boxes whose events all carry a content.
C34_OneEventWithContent ==
    Reconciled =>
        \A p \in PetIds : \A k \in LittersOfType(DEVICES_LITTER_BOX) :
            LET previous == InitOnly(last_stats.before[p], <<k>>)
                pet == petkit_entities[p]
            IN  (AllWithContent(k) /\ UsageFields(pet) # UsageFields(previous)) =>
                   UsageFields(pet) \in UsageEvents(k, p)

\* A record without content was applied to a pet an earlier cycle had
\* updated: the timestamp is the record's, weight and duration are those of
\* the earlier event.
C34_MixedEvents ==
    /\ Reconciled
    /\ \E p \in PetIds : \E k \in LittersOfType(LITTER_NO_CAMERA) :
          /\ Len(DeviceRecords(k)) = 1
          /\ IsNone(DeviceRecords(k)[1].content)
          /\ DeviceRecords(k)[1].timestamp = Some(2)
          /\ last_stats.before[p].last_litter_usage = Some(1)
          /\ petkit_entities[p].last_litter_usage = Some(2)
          /\ petkit_entities[p].last_measured_weight = last_stats.before[p].last_measured_weight
          /\ petkit_entities[p].last_duration_usage = last_stats.before[p].last_duration_usage

\* The pet-out-graph entries of litter box k that the first pass applied to
\* pet p in this run.
AppliedEntries(k, p) ==
    {i \in 1..Len(PetGraph(k)) :
        /\ PetGraph(k)[i].pet_id = Some(p)
        /\ NotNone(PetGraph(k)[i].time)
        /\ Val(PetGraph(k)[i].time) > UsageBefore(p)}

\* C35: in the camera path, the second pass writes a pet's health fields
\* only when last_event_id is set and is the event id of a pet-out-graph
\* entry of the same litter box that the first pass applied in this run,
\* the entry that supplied the pet's last_litter_usage; it matches no record
\* while last_event_id is unset or is left over from an earlier cycle.
C35_EventOfThisRun ==
    Reconciled =>
        \A p \in PetIds : \A k \in LittersOfType(LITTER_WITH_CAMERA) :
            LET previous == InitOnly(last_stats.before[p], <<k>>)
                pet == petkit_entities[p]
            IN  HealthFields(pet) # HealthFields(previous) =>
                   /\ NotNone(pet.last_event_id)
                   /\ \E i \in AppliedEntries(k, p) :
                         /\ PetGraph(k)[i].event_id = pet.last_event_id
                         /\ OptField(PetGraph(k)[i].content, "time") = pet.last_litter_usage

\* The second pass writes only from records whose pet id and event id are
\* the pet's id and its last_event_id, whatever that is.
C35_MatchedByCurrentId ==
    Reconciled =>
        \A p \in PetIds : \A k \in LittersOfType(LITTER_WITH_CAMERA) :
            LET previous == InitOnly(last_stats.before[p], <<k>>)
                pet == petkit_entities[p]
            IN  HealthFields(pet) # HealthFields(previous) => Correlated(k, p) # {}

\* No pet-out-graph entry was applied in this run, and a record carrying
\* the event id of an earlier cycle has changed the pet's health fields.
C35_LeftoverEvent ==
    /\ Reconciled
    /\ \E p \in PetIds : \E k \in LittersOfType(LITTER_WITH_CAMERA) :
          /\ PetGraph(k) = <<>>
          /\ last_stats.before[p].last_event_id = Some(1)
          /\ petkit_entities[p].last_event_id = Some(1)
          /\ Len(DeviceRecords(k)) = 1
          /\ DeviceRecords(k)[1].event_id = Some(1)
          /\ HealthFields(petkit_entities[p]) # HealthFields(last_stats.before[p])

\* The pet's last_event_id is unset and a record without event id has
\* changed the pet's health fields.
C35_UnsetEventMatched ==
    /\ Reconciled
    /\ \E p \in PetIds : \E k \in LittersOfType(LITTER_WITH_CAMERA) :
          /\ IsNone(petkit_entities[p].last_event_id)
          /\ Len(DeviceRecords(k)) = 1
          /\ IsNone(DeviceRecords(k)[1].event_id)
          /\ HealthFields(petkit_entities[p])
                # HealthFields(InitOnly(last_stats.before[p], <<k>>))

----------------------------------------------------------------------------
(* PrepReq._handle_response on one reply (SpecReply).  A reply is the HTTP  *)
(* status, the content type, and for a JSON body whether it has the error  *)
(* key (with its code, None when the code is missing) and the result key.  *)

Statuses == {200, 204, 304, 404, 500}

ContentTypes == {"application/json", "text/plain"}

ErrorCodes == {None, Some(1), Some(5), Some(122), Some(125), Some(7)}

Replies ==
    [status : Statuses, content_type : ContentTypes,
     error : {None} \cup {Some([code |-> c]) : c \in ErrorCodes},
     result : BOOLEAN]

Returned(value) == [raised |-> "", value |-> Some(value)]

Raised(exception) == [raised |-> exception, value |-> None]

\* aiohttp's ClientResponse.raise_for_status raises from status 400 on.
raise_for_status(status) == status >= 400

\* `match error_code`, with int(... .get("code", 0))
error_of_code(code) ==
    LET error_code == IF IsNone(code) THEN 0 ELSE Val(code) IN
    IF error_code = 1 THEN "PetkitServerBusyError"
    ELSE IF error_code = 5 THEN "PetkitSessionExpiredError"
    ELSE IF error_code = 122 THEN "PetkitAuthenticationError"
    ELSE IF error_code = 125 THEN "PetkitAuthenticationUnregisteredEmailError"
    ELSE "PypetkitError"

\* A faulty _handle_response: the result key is looked at before the error
\* key.
handle_response_result_first(reply) ==
    IF raise_for_status(reply.status) THEN Raised("PetkitInvalidHTTPResponseCodeError")
    ELSE IF reply.content_type # "application/json" THEN Returned([result |-> "text"])
    ELSE IF reply.result THEN Returned("result")
    ELSE IF NotNone(reply.error) THEN Raised(error_of_code(Val(reply.error).code))
    ELSE Raised("PypetkitError")

\* _handle_response
handle_response(reply) ==
    IF raise_for_status(reply.status) THEN Raised("PetkitInvalidHTTPResponseCodeError")
    ELSE IF reply.content_type # "application/json" THEN Returned([result |-> "text"])
    ELSE IF NotNone(reply.error) THEN Raised(error_of_code(Val(reply.error).code))
    ELSE IF reply.result THEN Returned("result")
    ELSE Raised("PypetkitError")

InitReply ==
    /\ account_data = <<>>
    /\ petkit_entities = NoEntities
    /\ entity_order = <<>>
    /\ main_tasks = <<>>
    /\ record_tasks = <<>>
    /\ media_tasks = <<>>
    /\ live_tasks = <<>>
    /\ pc = "idle"
    /\ last_stats = NoStats
    /\ session = "none"
    /\ session_id = 0 /\ base_url = PASSPORT_PETKIT /\ batch_ops = <<>>
    /\ \E reply \in Replies :
          call = [NoCall EXCEPT !.op = "reply", !.at = "response", !.body = Some(reply)]

\* `return await self._handle_response(resp, _url)`
HandleResponse ==
    /\ call.op = "reply"
    /\ call.at = "response"
    /\ LET r == handle_response(Val(call.body)) IN
       call' = [call EXCEPT !.at = IF r.raised = "" THEN "returned" ELSE "raised",
                            !.error = r.raised, !.value = r.value]
    /\ UNCHANGED <<petkit_entities, entity_order, session>>
    /\ FetchFrame

NextReply == HandleResponse

SpecReply == InitReply /\ [][NextReply]_vars

Handled2xx(status) == status >= 200 /\ status < 300

ReplyDone == call.op = "reply" /\ call.at # "response"

\* What C33 says of a reply whose status passes.
ReplyBody(reply) ==
    /\ (reply.content_type # "application/json") =>
          call.at = "returned" /\ call.value = Some([result |-> "text"])
    /\ (reply.content_type = "application/json" /\ NotNone(reply.error)) =>
          /\ call.at = "raised"
          /\ call.error =
                (CASE Val(reply.error).code = Some(1) -> "PetkitServerBusyError"
                   [] Val(reply.error).code = Some(5) -> "PetkitSessionExpiredError"
                   [] Val(reply.error).code = Some(122) -> "PetkitAuthenticationError"
                   [] Val(reply.error).code = Some(125) ->
                         "PetkitAuthenticationUnregisteredEmailError"
                   [] OTHER -> "PypetkitError")
    /\ (reply.content_type = "application/json" /\ IsNone(reply.error) /\ reply.result) =>
          call.at = "returned" /\ call.value = Some("result")
    /\ (reply.content_type = "application/json" /\ IsNone(reply.error) /\ ~reply.result) =>
          call.at = "raised" /\ call.error = "PypetkitError"

\* C33 as stated: a non-2xx status raises the invalid-HTTP-status error; of
\* a 2xx reply, a body with an error key raises by its code (1, 5, 122, 125,
\* any other) even when a result key is present, a body with only a result
\* key returns the result, a JSON body with neither raises the generic
\* error, and a non-JSON content type returns the text under the result key.
C33_OneOutcome ==
    ReplyDone =>
        LET reply == Val(call.body) IN
        IF ~Handled2xx(reply.status)
        THEN call.at = "raised" /\ call.error = "PetkitInvalidHTTPResponseCodeError"
        ELSE ReplyBody(reply)

\* C33, amended: a status of 400 or more raises the invalid-HTTP-status
\* error; every other reply, 2xx or not, is mapped by its content type and
\* its keys as C33 says.
C33_OneOutcomeFrom400 ==
    ReplyDone =>
        LET reply == Val(call.body) IN
        IF reply.status >= 400
        THEN call.at = "raised" /\ call.error = "PetkitInvalidHTTPResponseCodeError"
        ELSE ReplyBody(reply)

\* A 200 reply whose JSON body has both keys, with error code 5, has raised
\* the session-expired error.
C33_Witness ==
    /\ ReplyDone
    /\ Val(call.body).status = 200
    /\ Val(call.body).content_type = "application/json"
    /\ Val(call.body).error = Some([code |-> Some(5)])
    /\ Val(call.body).result
    /\ call.at = "raised"
    /\ call.error = "PetkitSessionExpiredError"

----------------------------------------------------------------------------
(* The session and the base URL under the operations of one batch          *)
(* (SpecSession).  asyncio.gather starts the operations one after the      *)
(* other, each running to its first await, before any answer is handled.   *)
(* An operation is "created", then awaits the region list ("region") and   *)
(* the login ("login") when it has to log in, then awaits its own request  *)
(* ("request") and ends "done" or "raised".  login: it has sent a login    *)
(* request; headers: the session id get_session_id gave it; url: the base  *)
(* URL its latest attempt was sent to; attempts: the attempts made.  The   *)
(* account's region is not China.                                          *)

BatchOps == 1..MaxDevices

NewOp == [at |-> "created", login |-> FALSE, headers |-> None, url |-> "", attempts |-> 0]

\* A faulty validate_session: an expired session is not renewed.
needs_login_if_none(s) == s = "none"

\* validate_session: `self._session is None`, or is_expired.
needs_login(s) == s \in {"none", "expired"}

\* A batch starts before any login, or with the session of an earlier
\* login, valid or expired.
InitSession ==
    /\ account_data = <<>>
    /\ petkit_entities = NoEntities
    /\ entity_order = <<>>
    /\ main_tasks = <<>>
    /\ record_tasks = <<>>
    /\ media_tasks = <<>>
    /\ live_tasks = <<>>
    /\ pc = "main"
    /\ last_stats = NoStats
    /\ call = NoCall
    /\ session \in {"none", "valid", "expired"}
    /\ session_id = 0
    /\ base_url = IF session = "none" THEN PASSPORT_PETKIT ELSE GATEWAY
    /\ batch_ops = [o \in BatchOps |-> NewOp]

SessionFrame ==
    UNCHANGED <<account_data, petkit_entities, entity_order, main_tasks, record_tasks,
                media_tasks, live_tasks, pc, last_stats, call>>

AllStarted == \A o \in BatchOps : batch_ops[o].at # "created"

\* PrepReq.request builds _url from self.base_url and sends the attempt.
Sent(op) == [op EXCEPT !.at = "request", !.url = base_url', !.attempts = @ + 1]

\* The first step of operation o: `headers=await self.get_session_id()`.
\* validate_session either returns at once, and the request is sent, or
\* calls login, which drops the session, resets base_url and awaits the
\* region list.
OpStarts(o) ==
    /\ batch_ops[o].at = "created"
    /\ \A n \in BatchOps : n < o => batch_ops[n].at # "created"
    /\ IF needs_login(session)
       THEN /\ session' = "none"
            /\ base_url' = PASSPORT_PETKIT
            /\ batch_ops' = [batch_ops EXCEPT ![o].at = "region"]
            /\ UNCHANGED session_id
       ELSE /\ UNCHANGED <<session, session_id, base_url>>
            /\ batch_ops' = [batch_ops EXCEPT
                                ![o] = Sent([@ EXCEPT !.headers = Some(session_id)])]
    /\ SessionFrame

\* _get_base_url: the region list arrives and the gateway is found, and the
\* login request is sent; or the request or the search raises.
RegionAnswered(o) ==
    /\ AllStarted
    /\ batch_ops[o].at = "region"
    /\ \/ /\ base_url' = GATEWAY
          /\ batch_ops' = [batch_ops EXCEPT ![o].at = "login", ![o].login = TRUE]
       \/ /\ batch_ops' = [batch_ops EXCEPT ![o].at = "raised"]
          /\ UNCHANGED base_url
    /\ UNCHANGED <<session, session_id>>
    /\ SessionFrame

\* login: the answer carries a new session, get_session_id returns its id
\* and the operation sends its request; or the login request raises.
LoginAnswered(o) ==
    /\ AllStarted
    /\ batch_ops[o].at = "login"
    /\ \/ /\ session' = "valid"
          /\ session_id' = session_id + 1
          /\ UNCHANGED base_url
          /\ batch_ops' = [batch_ops EXCEPT
                              ![o] = Sent([@ EXCEPT !.headers = Some(session_id')])]
       \/ /\ batch_ops' = [batch_ops EXCEPT ![o].at = "raised"]
          /\ UNCHANGED <<session, session_id, base_url>>
    /\ SessionFrame

\* The operation's request is answered: with a result, with error code 1
\* (tenacity runs the body of request again, unless MaxAttempts are made),
\* or with another error.
RequestAnswered(o) ==
    /\ AllStarted
    /\ batch_ops[o].at = "request"
    /\ UNCHANGED <<session, session_id, base_url>>
    /\ \E outcome \in {"ok", "busy", "api_error"} :
          batch_ops' =
             IF outcome = "ok" THEN [batch_ops EXCEPT ![o].at = "done"]
             ELSE IF retries(request_raises(outcome), batch_ops[o].attempts)
             THEN [batch_ops EXCEPT ![o] = Sent(@)]
             ELSE [batch_ops EXCEPT ![o].at = "raised"]
    /\ SessionFrame

NextSession ==
    \/ SessionExpires
    \/ \E o \in BatchOps : OpStarts(o)
    \/ \E o \in BatchOps : RegionAnswered(o)
    \/ \E o \in BatchOps : LoginAnswered(o)
    \/ \E o \in BatchOps : RequestAnswered(o)

SpecSession == InitSession /\ [][NextSession]_vars

----------------------------------------------------------------------------
(* Properties of the session and of the base URL (SpecSession) *)

\* Operation o receives its session headers in this step.
GetsHeaders(o) == IsNone(batch_ops[o].headers) /\ NotNone(batch_ops'[o].headers)

\* C32: an operation sends its request only with the headers get_session_id
\* gave it, and these carry the id of the session that exists at that
\* moment.  When the session is absent or expired the operation logs in
\* first and its headers carry the id of the new session; when the session
\* is valid no login request is sent and the session is unchanged.
C32_ValidatedFirst ==
    /\ [](\A o \in BatchOps :
            batch_ops[o].attempts > 0 => NotNone(batch_ops[o].headers))
    /\ [][\A o \in BatchOps :
            /\ GetsHeaders(o) =>
                  /\ session' = "valid"
                  /\ batch_ops'[o].headers = Some(session_id')
                  /\ batch_ops'[o].attempts = 1
            /\ (batch_ops[o].at = "created" /\ batch_ops'[o].at # "created") =>
                  IF session = "valid"
                  THEN /\ GetsHeaders(o)
                       /\ ~batch_ops'[o].login
                       /\ session' = session /\ session_id' = session_id
                  ELSE /\ batch_ops'[o].at = "region"
                       /\ IsNone(batch_ops'[o].headers)
            /\ (batch_ops[o].at # "created" /\ GetsHeaders(o)) =>
                  /\ batch_ops'[o].login
                  /\ session_id' # session_id]_vars

\* An operation that met an expired session has logged in and has sent its
\* request with the id of the new session.
C32_Witness ==
    \E o \in BatchOps :
        /\ batch_ops[o].login
        /\ batch_ops[o].at = "request"
        /\ session = "valid"
        /\ batch_ops[o].headers = Some(session_id)
        /\ \A n \in BatchOps : n # o => ~batch_ops[n].login /\ batch_ops[n].at = "done"

\* The operations that have sent a login request.
LoggedIn == {o \in BatchOps : batch_ops[o].login}

\* C36: the operations of one batch that meet an absent or expired session
\* send at most one login request between them, and all go on with the same
\* session.
C36_OneLogin ==
    /\ Cardinality(LoggedIn) <= 1
    /\ \A o, n \in BatchOps :
          (NotNone(batch_ops[o].headers) /\ NotNone(batch_ops[n].headers)) =>
              batch_ops[o].headers = batch_ops[n].headers

\* Two operations of the batch have each sent a login request and each
\* holds the id of its own session.
C36_TwoLogins ==
    \E o, n \in BatchOps :
        /\ o # n
        /\ batch_ops[o].login /\ batch_ops[n].login
        /\ NotNone(batch_ops[o].headers) /\ NotNone(batch_ops[n].headers)
        /\ batch_ops[o].headers # batch_ops[n].headers

\* C37: every attempt of an operation's request, the retried ones and those
\* made while another operation logs in again included, is sent to the
\* gateway of the region and never to the passport URL.
C37_GatewayOnly ==
    \A o \in BatchOps : batch_ops[o].attempts > 0 => batch_ops[o].url = GATEWAY

\* The requests that no login overlaps do go to the gateway: the first
\* attempt of every operation does.
C37_FirstAttemptToGateway ==
    \A o \in BatchOps : batch_ops[o].attempts = 1 => batch_ops[o].url = GATEWAY

\* An operation's retried request went to the passport URL while another
\* operation was waiting for the region list of its login.
C37_RetriedToPassport ==
    \E o, n \in BatchOps :
        /\ batch_ops[o].at = "request"
        /\ batch_ops[o].attempts = 2
        /\ batch_ops[o].url = PASSPORT_PETKIT
        /\ batch_ops[n].at = "region"

====
